---- MODULE Spec2Model ----
(***************************************************************************)
(* A model of the actlib actor runtime (src/actlib): the LocalEnvironment   *)
(* of every node of a cluster, the actor mailbox loops, the two I/O         *)
(* workers, the links between the nodes and the API calls of Environment.   *)
(* Every lock-protected critical section of the code is one step; a         *)
(* handler that takes several locks one after the other is split where      *)
(* another thread can observe the difference.                               *)
(***************************************************************************)
EXTENDS Integers, Sequences, FiniteSets, TLC

\* ---------------------------------------------------------------- bounds
MaxActors == 2      \* actor instances ever spawned in the cluster
MaxMbox == 2        \* envelopes an API call may queue in one mailbox
MaxLookups == 2     \* find_actor_ref calls ever started
MaxInFlight == 2    \* frames an API call may queue on one link
MaxSpawnsLB == 10   \* spawns of the load-balancer specification
MaxExpire == 2      \* runs of send_expiration_signal per node
MaxMsgs == 2        \* messages each producer sends
MaxReceivers == 1   \* receiving actors of the message specification
MaxFrames == 2      \* payloads written to one connection
MaxThreads == 2     \* threads of the lock specification

\* The node addresses (IP of node k is k).
Nodes == {1, 2, 3}

\* Byte strings used as user-specified local ids.
SpecIds == {1, 2}

\* Type tags known to the actor_builder of every node.
KnownTags == {"W"}

\* ------------------------------------------------------------ data types
\* LocalId::Specified(v) and LocalId::Automatic(uuid)
Specified(v) == <<"S", v>>
Automatic(u) == <<"A", u>>

\* ActorId { local_id, location }
ActorId(lid, loc) == <<lid, loc>>
LocalIdOf(id) == id[1]
Location(id) == id[2]

\* ActorRef { actor_id, sender }: sender is Local(mailbox of instance inst)
\* or Remote(outbound queue of the node); NoRef is Option::None.
LocalRef(id, inst) == [id |-> id, kind |-> "Local", inst |-> inst]
RemoteRef(id) == [id |-> id, kind |-> "Remote", inst |-> 0]
NoRef == [id |-> ActorId(Specified(0), 0), kind |-> "None", inst |-> 0]

\* Token
TokStop == 0
TokReset == 1

\* A message value is [ty, v]; NoMsg stands where there is none.
Msg(ty, v) == [ty |-> ty, v |-> v]
NoMsg == Msg("", 0)

\* EitherMessage: the variant and its payload (a boxed message, the bytes of
\* a message, or a token).
Regular(m) == [kind |-> "Regular", msg |-> m, bin |-> <<>>, tok |-> -1]
Serialized(b) == [kind |-> "Serialized", msg |-> NoMsg, bin |-> b, tok |-> -1]
Special(t) == [kind |-> "Special", msg |-> NoMsg, bin |-> <<>>, tok |-> t]

\* bincode::serialize(&Token): the variant index.
SerializeToken(t) == <<t>>
\* bincode::deserialize::<Token>: Ok for the two variant indices only.
DeserializeToken(b) == IF Len(b) = 1 /\ b[1] \in {TokStop, TokReset} THEN b[1] ELSE -1

\* bincode::serialize(&message): the fields without the name of the type.
\* Ping is written as its number; DoWorkMessage and StartWorkMessage are both
\* one Vec, written as its length (one element) and the element.
Serialize(m) == IF m.ty = "Ping" THEN <<m.v>> ELSE <<1, m.v>>
\* The handler table of the actors: the registered message types in
\* declaration order (impl_message_handler!).
HandlerTable == <<"Ping", "DoWorkMessage", "StartWorkMessage">>
\* bincode::deserialize::<ty>: Ok when the bytes have the layout of ty.
Decodes(ty, b) ==
    IF ty = "Ping" THEN Len(b) = 1 /\ b[1] >= 0
    ELSE Len(b) = 2 /\ b[1] = 1
RECURSIVE FirstDecoder(_, _)
FirstDecoder(b, i) ==
    IF i > Len(HandlerTable) THEN 0
    ELSE IF Decodes(HandlerTable[i], b) THEN i
    ELSE FirstDecoder(b, i + 1)
\* deserialize_to_any: the first type whose decoder succeeds, or none (ty "").
DeserializeToAny(b) ==
    LET i == FirstDecoder(b, 1)
    IN  IF i = 0 THEN NoMsg ELSE Msg(HandlerTable[i], b[Len(b)])

\* An actor factory that builds an actor for every type id.
ActorBuilderOk_Any(tag) == TRUE

\* actor_builder!: Ok for the registered tags, SpawnFailed otherwise.
ActorBuilderOk(tag) == tag \in KnownTags

\* ------------------------------------------------------ sequence helpers
RECURSIVE SeqToSet(_)
SeqToSet(s) == IF s = <<>> THEN {} ELSE {Head(s)} \cup SeqToSet(Tail(s))

RECURSIVE FilterOut(_, _)
FilterOut(s, x) ==
    IF s = <<>> THEN <<>>
    ELSE IF Head(s) = x THEN FilterOut(Tail(s), x)
    ELSE <<Head(s)>> \o FilterOut(Tail(s), x)

RECURSIVE Dedup(_, _)
Dedup(s, seen) ==
    IF s = <<>> THEN <<>>
    ELSE IF Head(s) \in seen THEN Dedup(Tail(s), seen)
    ELSE <<Head(s)>> \o Dedup(Tail(s), seen \cup {Head(s)})

RECURSIVE UpTo(_)
UpTo(k) == IF k = 0 THEN <<>> ELSE Append(UpTo(k - 1), k)

\* A finite map without key k.
MapRemove(f, k) == [x \in DOMAIN f \ {k} |-> f[x]]
\* A finite map with k bound to v (HashMap::insert replaces).
MapInsert(f, k, v) == [x \in DOMAIN f \cup {k} |-> IF x = k THEN v ELSE f[x]]
EmptyMap == [x \in {} |-> 0]

\* ----------------------------------------------------------------- state
VARIABLES
    net_senders,   \* [node -> sequence of peer IPs]: the keys of the IndexMap, in order
    load_balancer, \* [node -> [counter, num_machines]]
    channels,      \* [node -> ActorId -> actor instance]: local_actor_channels
    invincible,    \* [node -> ActorId -> set of ActorId]: invincible_actors
    actors,        \* sequence of actor instances: [id, pc, mbox, running, log]
    outq,          \* [node -> sequence of <<ActorId, content>>]: the outbound queue
    link,          \* [node -> [node -> sequence of NetMessage]]: frames written, not yet read
    queries,       \* [node -> <<queried id, searcher>> -> lookup]: remote_queries
    lookups,       \* sequence of find_actor_ref calls: [node, q, searcher, protect, num, got, chan, pc, result]
    term,          \* [node -> values sent on the termination channel]
    inbound,       \* [node -> [peer -> [st, ids, bin]]]: the inbound worker of a link, st is
                   \* "run", "bcast" (fanning a Broadcast out to ids), "expire" or "dead"
    expiring,      \* [node -> API threads inside send_expiration_signal, before the release]
    uuid,          \* Uuid::new_v4 draws so far
    sent,          \* [producer -> messages sent so far]
    hExpStop,      \* history: actor instances that were sent a Stop by an expiration
    hBcast,        \* the broadcast calls: [node, msg, actors at the call, written]
    ret,           \* what the calls of spawn, send and to_actor_ref returned: {[call, node, ref, res]}
    stream,        \* a NetChannel connection: the bytes written to the TcpStream, not yet read
    received,      \* the payloads the calls of NetReceiver::read on it have returned
    written,       \* the payloads handed to NetSender::write on it
    threads        \* [thread of node 1 -> [op, pc]]: the call it is in and how many of the
                   \* call's lock and write steps it has done

vars == <<net_senders, load_balancer, channels, invincible, actors, outq, link,
          queries, lookups, term, inbound, expiring, uuid, sent, hExpStop, hBcast,
          ret, stream, received, written, threads>>

\* ------------------------------------------------------- construction
\* LoadBalancer::new
NewLoadBalancer(num_machines) == [counter |-> 0, num_machines |-> num_machines]

\* LocalEnvironment::new: the own address is filtered from the remotes,
\* num_machines counts the remaining endpoints, net_senders is keyed by IP.
Remotes(self, remotes) == FilterOut(remotes, self)
NewNetSenders(self, remotes) == Dedup(Remotes(self, remotes), {})
NewNumMachines(self, remotes) == 1 + Len(Remotes(self, remotes))

\* The thread of wait_for_remote_messages: where it is, and the identifiers
\* and the payload of the Broadcast frame it is fanning out.
Worker(st) == [st |-> st, ids |-> {}, bin |-> <<>>]

\* Every node of a cluster of k nodes is started with the list 1..k.
InitCluster(k) ==
    /\ net_senders = [n \in Nodes |-> IF n <= k THEN NewNetSenders(n, UpTo(k)) ELSE <<>>]
    /\ load_balancer = [n \in Nodes |->
           NewLoadBalancer(IF n <= k THEN NewNumMachines(n, UpTo(k)) ELSE 1)]
    /\ channels = [n \in Nodes |-> EmptyMap]
    /\ invincible = [n \in Nodes |-> EmptyMap]
    /\ actors = <<>>
    /\ outq = [n \in Nodes |-> <<>>]
    /\ link = [n \in Nodes |-> [p \in Nodes |-> <<>>]]
    /\ queries = [n \in Nodes |-> EmptyMap]
    /\ lookups = <<>>
    /\ term = [n \in Nodes |-> 0]
    /\ inbound = [n \in Nodes |-> [p \in Nodes |-> Worker("run")]]
    /\ expiring = [n \in Nodes |-> 0]
    /\ uuid = 0
    /\ sent = [p \in {1, 2} |-> 0]
    /\ hExpStop = {}
    /\ hBcast = <<>>
    /\ ret = {}
    /\ stream = <<>>
    /\ received = <<>>
    /\ written = <<>>
    /\ threads = [t \in 1..MaxThreads |-> [op |-> "idle", pc |-> 0]]

\* The nodes of the running cluster: those that know a peer, or node 1.
Started(n) == n = 1 \/ net_senders[n] # <<>>
Peers(n) == SeqToSet(net_senders[n])

\* A call on node n has returned: Ok(ref), or the error res.
Returned(call, n, ref, res) == [call |-> call, node |-> n, ref |-> ref, res |-> res]

\* ---------------------------------------------------------------- mailbox
Alive(a) == actors[a].pc # "done"

\* A mailbox that hands out the newest envelope first.
MboxSend_Prepend(as, a, e) ==
    IF as[a].pc = "done" THEN as ELSE [as EXCEPT ![a].mbox = <<e>> \o @]

\* Sender::send on a mailbox channel: the envelope is queued unless the
\* receiver (the actor loop) is gone, in which case send returns Err.
MboxSend(as, a, e) ==
    IF as[a].pc = "done" THEN as ELSE [as EXCEPT ![a].mbox = Append(@, e)]

RECURSIVE MboxSendAll(_, _, _)
MboxSendAll(as, targets, e) ==
    IF targets = {} THEN as
    ELSE LET a == CHOOSE x \in targets : TRUE
         IN  MboxSendAll(MboxSend(as, a, e), targets \ {a}, e)

\* The mailboxes the entries of local_actor_channels of node n lead to.
Registered(n) == {channels[n][id] : id \in DOMAIN channels[n]}

NodeOf(a) == Location(actors[a].id)
Protected(n, id) == id \in DOMAIN invincible[n]

\* ------------------------------------------------------------ actor loop
\* actor_mailbox_loop, start: the mailbox is built and on_start is called.
LoopStart(a) ==
    /\ actors[a].pc = "spawned"
    /\ actors' = [actors EXCEPT ![a].pc = "on_start",
                                ![a].running = Append(@, "on_start")]
    /\ UNCHANGED <<net_senders, load_balancer, channels, invincible, outq, link,
                   queries, lookups, term, inbound, expiring, uuid, sent, hExpStop, hBcast,
                   ret, stream, received, written, threads>>

\* on_start, handle or on_reset returns: the loop waits for the next envelope.
HandlerReturn(a) ==
    /\ actors[a].pc \in {"on_start", "handle", "on_reset"}
    /\ actors' = [actors EXCEPT ![a].pc = "idle",
                                ![a].running = SubSeq(@, 1, Len(@) - 1)]
    /\ UNCHANGED <<net_senders, load_balancer, channels, invincible, outq, link,
                   queries, lookups, term, inbound, expiring, uuid, sent, hExpStop, hBcast,
                   ret, stream, received, written, threads>>

\* A loop that handles a Regular envelope and leaves it in the mailbox.
Dispatch_Peek(a, e) ==
    LET rest == Tail(actors[a].mbox)
        d == DeserializeToAny(e.bin)
    IN  IF e.kind = "Special" /\ e.tok = TokStop
        THEN IF Protected(NodeOf(a), actors[a].id)
             THEN [actors EXCEPT ![a].mbox = rest]
             ELSE [actors EXCEPT ![a].mbox = rest, ![a].pc = "on_stop",
                                 ![a].running = Append(@, "on_stop")]
        ELSE IF e.kind = "Special"
        THEN [actors EXCEPT ![a].mbox = rest, ![a].pc = "on_reset",
                            ![a].running = Append(@, "on_reset")]
        ELSE IF e.kind = "Regular"
        THEN [actors EXCEPT ![a].pc = "handle",
                            ![a].running = Append(@, "handle"),
                            ![a].log = Append(@, e.msg)]
        ELSE IF d.ty # ""
        THEN [actors EXCEPT ![a].mbox = rest, ![a].pc = "handle",
                            ![a].running = Append(@, "handle"),
                            ![a].log = Append(@, d)]
        ELSE [actors EXCEPT ![a].mbox = rest]

\* A loop that obeys every Stop, protected or not.
Dispatch_ObeyStop(a, e) ==
    LET rest == Tail(actors[a].mbox)
        d == DeserializeToAny(e.bin)
    IN  IF e.kind = "Special" /\ e.tok = TokStop
        THEN [actors EXCEPT ![a].mbox = rest, ![a].pc = "on_stop",
                            ![a].running = Append(@, "on_stop")]
        ELSE IF e.kind = "Special"
        THEN [actors EXCEPT ![a].mbox = rest, ![a].pc = "on_reset",
                            ![a].running = Append(@, "on_reset")]
        ELSE IF e.kind = "Regular"
        THEN [actors EXCEPT ![a].mbox = rest, ![a].pc = "handle",
                            ![a].running = Append(@, "handle"),
                            ![a].log = Append(@, e.msg)]
        ELSE IF d.ty # ""
        THEN [actors EXCEPT ![a].mbox = rest, ![a].pc = "handle",
                            ![a].running = Append(@, "handle"),
                            ![a].log = Append(@, d)]
        ELSE [actors EXCEPT ![a].mbox = rest]

\* What the loop does with the envelope e it has popped.
Dispatch(a, e) ==
    LET rest == Tail(actors[a].mbox)
        d == DeserializeToAny(e.bin)
    IN  IF e.kind = "Special" /\ e.tok = TokStop
        THEN IF Protected(NodeOf(a), actors[a].id)
             THEN [actors EXCEPT ![a].mbox = rest]
             ELSE [actors EXCEPT ![a].mbox = rest, ![a].pc = "on_stop",
                                 ![a].running = Append(@, "on_stop")]
        ELSE IF e.kind = "Special"
        THEN [actors EXCEPT ![a].mbox = rest, ![a].pc = "on_reset",
                            ![a].running = Append(@, "on_reset")]
        ELSE IF e.kind = "Regular"
        THEN [actors EXCEPT ![a].mbox = rest, ![a].pc = "handle",
                            ![a].running = Append(@, "handle"),
                            ![a].log = Append(@, e.msg)]
        ELSE IF d.ty # ""
        THEN [actors EXCEPT ![a].mbox = rest, ![a].pc = "handle",
                            ![a].running = Append(@, "handle"),
                            ![a].log = Append(@, d)]
        ELSE [actors EXCEPT ![a].mbox = rest]

\* A loop that takes the next envelope while a handler is still running.
LoopRecv_Reentrant(a) ==
    /\ actors[a].pc \in {"idle", "on_start", "handle", "on_reset"}
    /\ actors[a].mbox # <<>>
    /\ actors' = Dispatch(a, Head(actors[a].mbox))
    /\ UNCHANGED <<net_senders, load_balancer, channels, invincible, outq, link,
                   queries, lookups, term, inbound, expiring, uuid, sent, hExpStop, hBcast,
                   ret, stream, received, written, threads>>

\* mailbox.wait_for_msg returns an envelope to the waiting loop.
LoopRecv(a) ==
    /\ actors[a].pc = "idle"
    /\ actors[a].mbox # <<>>
    /\ actors' = Dispatch(a, Head(actors[a].mbox))
    /\ UNCHANGED <<net_senders, load_balancer, channels, invincible, outq, link,
                   queries, lookups, term, inbound, expiring, uuid, sent, hExpStop, hBcast,
                   ret, stream, received, written, threads>>

\* A loop that goes back to waiting for envelopes after on_stop.
OnStopReturn_Continue(a) ==
    /\ actors[a].pc = "on_stop"
    /\ actors' = [actors EXCEPT ![a].pc = "idle",
                                ![a].running = SubSeq(@, 1, Len(@) - 1)]
    /\ UNCHANGED <<net_senders, load_balancer, channels, invincible, outq, link,
                   queries, lookups, term, inbound, expiring, uuid, sent, hExpStop, hBcast,
                   ret, stream, received, written, threads>>

\* on_stop returns; the loop calls env.remove(this_actor_id).
OnStopReturn(a) ==
    /\ actors[a].pc = "on_stop"
    /\ actors' = [actors EXCEPT ![a].pc = "remove",
                                ![a].running = SubSeq(@, 1, Len(@) - 1)]
    /\ UNCHANGED <<net_senders, load_balancer, channels, invincible, outq, link,
                   queries, lookups, term, inbound, expiring, uuid, sent, hExpStop, hBcast,
                   ret, stream, received, written, threads>>

\* LocalEnvironment::remove, local case, first lock: a protected id makes
\* remove return at once (and the loop then breaks).
RemoveCheck(a) ==
    /\ actors[a].pc = "remove"
    /\ actors' = [actors EXCEPT ![a].pc =
           IF Protected(NodeOf(a), actors[a].id) THEN "done" ELSE "remove_channel"]
    /\ UNCHANGED <<net_senders, load_balancer, channels, invincible, outq, link,
                   queries, lookups, term, inbound, expiring, uuid, sent, hExpStop, hBcast,
                   ret, stream, received, written, threads>>

\* LocalEnvironment::remove, local case, second lock: channels.remove(id);
\* the loop breaks.
RemoveChannel(a) ==
    /\ actors[a].pc = "remove_channel"
    /\ channels' = [channels EXCEPT ![NodeOf(a)] = MapRemove(@, actors[a].id)]
    /\ actors' = [actors EXCEPT ![a].pc = "done"]
    /\ UNCHANGED <<net_senders, load_balancer, invincible, outq, link,
                   queries, lookups, term, inbound, expiring, uuid, sent, hExpStop, hBcast,
                   ret, stream, received, written, threads>>

ActorStep(a) ==
    \/ LoopStart(a)
    \/ HandlerReturn(a)
    \/ LoopRecv(a)
    \/ OnStopReturn(a)
    \/ RemoveCheck(a)
    \/ RemoveChannel(a)

\* ----------------------------------------------------------- load balancer
\* LoadBalancer::next_machine_no: the number returned and the counter left.
NextMachineNo(b) ==
    IF b.counter < b.num_machines
    THEN [res |-> b.counter, lb |-> [b EXCEPT !.counter = b.counter + 1]]
    ELSE [res |-> 0, lb |-> [b EXCEPT !.counter = 0]]

\* ------------------------------------------------------------------ spawn
\* SpawnId: Automatic, SpawnHere(id) or User(id).
SpawnAutomatic == [kind |-> "Automatic", lid |-> Specified(0)]
SpawnHere(lid) == [kind |-> "SpawnHere", lid |-> lid]
SpawnUser(lid) == [kind |-> "User", lid |-> lid]

NewActor(id) == [id |-> id, pc |-> "spawned", mbox |-> <<>>, running |-> <<>>, log |-> <<>>]

\* A spawn that asks the load balancer for every placement.
MachineNo_AskAlways(n, sid) == NextMachineNo(load_balancer[n]).res

\* The machine number spawn decides on: 0 without asking for SpawnHere.
MachineNo(n, sid) ==
    IF sid.kind = "SpawnHere" THEN 0 ELSE NextMachineNo(load_balancer[n]).res

\* The local id of the new actor: a fresh Uuid for Automatic.
NewLocalId(sid) == IF sid.kind = "Automatic" THEN Automatic(uuid + 1) ELSE sid.lid

\* What spawn returns: a reference, or the error.
SpawnResult(n, tag, sid) ==
    LET no == MachineNo(n, sid)
    IN  IF no = 0
        THEN IF ActorBuilderOk(tag)
             THEN LocalRef(ActorId(NewLocalId(sid), n), Len(actors) + 1)
             ELSE [NoRef EXCEPT !.kind = "SpawnFailed"]
        ELSE IF no - 1 < Len(net_senders[n])
        THEN RemoteRef(ActorId(NewLocalId(sid), net_senders[n][no]))
        ELSE [NoRef EXCEPT !.kind = "InvalidState"]

\* LocalEnvironment::spawn. The load balancer is asked first; local
\* placement builds the actor, registers its mailbox sender and starts the
\* loop thread; remote placement writes SpawnByTypeId to the chosen peer.
SpawnEffect(n, tag, sid) ==
    LET r == SpawnResult(n, tag, sid)
    IN  /\ load_balancer' = IF sid.kind = "SpawnHere" THEN load_balancer
              ELSE [load_balancer EXCEPT ![n] = NextMachineNo(@).lb]
        /\ uuid' = IF NewLocalId(sid) = Automatic(uuid + 1) /\ r.kind \in {"Local", "Remote"}
                   THEN uuid + 1 ELSE uuid
        /\ IF r.kind = "Local"
           THEN /\ actors' = Append(actors, NewActor(r.id))
                /\ channels' = [channels EXCEPT ![n] = MapInsert(@, r.id, Len(actors) + 1)]
                /\ link' = link
           ELSE IF r.kind = "Remote"
           THEN /\ link' = [link EXCEPT ![n][Location(r.id)] =
                       Append(@, [type |-> "SpawnByTypeId", tag |-> tag,
                                  lid |-> LocalIdOf(r.id)])]
                /\ UNCHANGED <<actors, channels>>
           ELSE UNCHANGED <<actors, channels, link>>

\* Environment::spawn, spawn_local, spawn_local_with_id, spawn_with_id
\* called by some thread of node n.
Spawn(n, tag, sid) ==
    /\ Started(n)
    /\ \A p \in Nodes : Len(link[n][p]) < MaxInFlight
    /\ SpawnEffect(n, tag, sid)
    /\ LET r == SpawnResult(n, tag, sid)
       IN  ret' = ret \cup {Returned("spawn", n, r,
                      IF r.kind \in {"Local", "Remote"} THEN "Ok" ELSE r.kind)}
    /\ UNCHANGED <<net_senders, invincible, outq, queries, lookups, term, inbound,
                   expiring, sent, hExpStop, hBcast, stream, received, written, threads>>

\* ------------------------------------------------------------- net frames
\* Sender::send on the outbound queue: its receiver lives in the outbound
\* worker, which exists only on a node with peers.
OutqSend(q, n, item) == IF net_senders[n] = <<>> THEN q ELSE [q EXCEPT ![n] = Append(@, item)]

\* One frame written to every entry of net_senders of node n.
WriteAll(l, n, f) ==
    [l EXCEPT ![n] = [p \in Nodes |-> IF p \in Peers(n) THEN Append(l[n][p], f) ELSE l[n][p]]]

\* A handle_net_message that passes on messages and discards tokens.
HandleNetMessage_DropToken(as, n, content, id) ==
    IF id \notin DOMAIN channels[n] THEN as
    ELSE IF content.kind = "Message"
    THEN MboxSend(as, channels[n][id], Serialized(content.bin))
    ELSE as

\* handle_net_message: the content goes to the mailbox registered under id,
\* and is dropped when the id is not registered or the token does not decode.
HandleNetMessage(as, n, content, id) ==
    IF id \notin DOMAIN channels[n] THEN as
    ELSE IF content.kind = "Message"
    THEN MboxSend(as, channels[n][id], Serialized(content.bin))
    ELSE IF DeserializeToken(content.bin) = -1 THEN as
    ELSE MboxSend(as, channels[n][id], Special(DeserializeToken(content.bin)))

\* -------------------------------------------------------- remove and send
\* Environment::remove on a Local reference to instance a.
RemoveLocal(a) ==
    /\ a \in DOMAIN actors
    /\ Len(actors[a].mbox) < MaxMbox
    /\ actors' = MboxSend(actors, a, Special(TokStop))
    /\ UNCHANGED <<net_senders, load_balancer, channels, invincible, outq, link,
                   queries, lookups, term, inbound, expiring, uuid, sent, hExpStop, hBcast,
                   ret, stream, received, written, threads>>

\* Environment::remove on a Remote reference held on node n; ret keeps the
\* call that has returned.
RemoveRemote(n, id) ==
    /\ Started(n)
    /\ Location(id) # n
    /\ Len(outq[n]) < MaxInFlight
    /\ outq' = OutqSend(outq, n, <<id, [kind |-> "Token", bin |-> SerializeToken(TokStop)]>>)
    /\ ret' = ret \cup {Returned("remove", n, RemoteRef(id), "Ok")}
    /\ UNCHANGED <<net_senders, load_balancer, channels, invincible, actors, link,
                   queries, lookups, term, inbound, expiring, uuid, sent, hExpStop, hBcast,
                   stream, received, written, threads>>

\* The k-th message of producer p.
ProducerMsg(p, k) == Msg("Ping", 10 * p + k)

\* What send_message and send_reset_message return on a Local reference:
\* Sender::send fails once the receiver, which the loop owns, is gone.
SendLocalResult(a) == IF actors[a].pc = "done" THEN "InvalidActorRef" ELSE "Ok"

\* What send_message returns on a Remote reference held on node n: the
\* send on the outbound queue fails when its receiver was dropped.
SendRemoteResult(n) == IF net_senders[n] = <<>> THEN "InvalidActorRef" ELSE "Ok"

\* ActorRef::send_message on a Local reference, by producer p.
SendLocal(p, a) ==
    /\ a \in DOMAIN actors
    /\ sent[p] < MaxMsgs
    /\ actors' = MboxSend(actors, a, Regular(ProducerMsg(p, sent[p] + 1)))
    /\ sent' = [sent EXCEPT ![p] = @ + 1]
    /\ ret' = ret \cup {Returned("send", NodeOf(a), LocalRef(actors[a].id, a), SendLocalResult(a))}
    /\ UNCHANGED <<net_senders, load_balancer, channels, invincible, outq, link,
                   queries, lookups, term, inbound, expiring, uuid, hExpStop, hBcast,
                   stream, received, written, threads>>

\* ActorRef::send_message on a Remote reference held on node n, by producer p.
SendRemote(p, n, id) ==
    /\ Started(n)
    /\ Location(id) # n
    /\ sent[p] < MaxMsgs
    /\ outq' = OutqSend(outq, n,
           <<id, [kind |-> "Message", bin |-> Serialize(ProducerMsg(p, sent[p] + 1))]>>)
    /\ sent' = [sent EXCEPT ![p] = @ + 1]
    /\ ret' = ret \cup {Returned("send", n, RemoteRef(id), SendRemoteResult(n))}
    /\ UNCHANGED <<net_senders, load_balancer, channels, invincible, actors, link,
                   queries, lookups, term, inbound, expiring, uuid, hExpStop, hBcast,
                   stream, received, written, threads>>

\* ActorRef::send_reset_message on a Local reference.
SendReset(a) ==
    /\ a \in DOMAIN actors
    /\ Len(actors[a].mbox) < MaxMbox
    /\ actors' = MboxSend(actors, a, Special(TokReset))
    /\ ret' = ret \cup {Returned("send_reset", NodeOf(a), LocalRef(actors[a].id, a),
                                 SendLocalResult(a))}
    /\ UNCHANGED <<net_senders, load_balancer, channels, invincible, outq, link,
                   queries, lookups, term, inbound, expiring, uuid, sent, hExpStop, hBcast,
                   stream, received, written, threads>>

\* ------------------------------------------------------------- protectors
\* add_protector
AddProtector(inv, protector, target) ==
    IF target \in DOMAIN inv
    THEN [inv EXCEPT ![target] = @ \cup {protector}]
    ELSE MapInsert(inv, target, {protector})

\* remove_protector, the table: the protector leaves the set of a known target.
RemoveProtectorTable(inv, protector, target) ==
    IF target \in DOMAIN inv THEN [inv EXCEPT ![target] = @ \ {protector}] ELSE inv

\* remove_protector: a target unknown to the table makes the node write
\* RemoveProtector to every peer.
RemoveProtectorEffect(n, protector, target) ==
    /\ invincible' = [invincible EXCEPT ![n] = RemoveProtectorTable(@, protector, target)]
    /\ link' = IF target \in DOMAIN invincible[n] THEN link
               ELSE WriteAll(link, n, [type |-> "RemoveProtector",
                                       protector |-> protector, target |-> target])

\* Environment::drop_protector called on node n.
DropProtector(n, protector, target) ==
    /\ Started(n)
    /\ \A p \in Nodes : Len(link[n][p]) < MaxInFlight
    /\ RemoveProtectorEffect(n, protector, target)
    /\ UNCHANGED <<net_senders, load_balancer, channels, actors, outq,
                   queries, lookups, term, inbound, expiring, uuid, sent, hExpStop, hBcast,
                   ret, stream, received, written, threads>>

\* ----------------------------------------------------------------- lookup
NewLookup(n, q, s, protect, num, chan) ==
    [node |-> n, q |-> q, searcher |-> s, protect |-> protect, num |-> num,
     got |-> 0, chan |-> chan, pc |-> "recv", result |-> NoRef]

\* LocalEnvironment::find_actor_ref: the local search under the lock of
\* local_actor_channels (with add_protector on a protected hit), else the
\* reply sender is registered and QuerySpecifiedId is written to every peer.
FindActorRef(n, q, s, protect) ==
    LET target == ActorId(Specified(q), n)
        l == Len(lookups) + 1
    IN  /\ Started(n)
        /\ \A p \in Nodes : Len(link[n][p]) < MaxInFlight
        /\ IF target \in DOMAIN channels[n]
           THEN /\ invincible' = IF protect
                      THEN [invincible EXCEPT ![n] = AddProtector(@, s, target)]
                      ELSE invincible
                /\ lookups' = Append(lookups, NewLookup(n, q, s, protect, 1,
                                  <<LocalRef(target, channels[n][target])>>))
                /\ UNCHANGED <<queries, link>>
           ELSE /\ queries' = [queries EXCEPT ![n] = MapInsert(@, <<q, s>>, l)]
                /\ link' = WriteAll(link, n, [type |-> "QuerySpecifiedId", q |-> q,
                                ip |-> n, searcher |-> s, protect |-> protect])
                /\ lookups' = Append(lookups, NewLookup(n, q, s, protect,
                                  Len(net_senders[n]), <<>>))
                /\ UNCHANGED invincible
        /\ UNCHANGED <<net_senders, load_balancer, channels, actors, outq,
                       term, inbound, expiring, uuid, sent, hExpStop, hBcast,
                       ret, stream, received, written, threads>>

\* The reply channel of lookup l still has a sender: the one registered in
\* remote_queries (the local search drops its sender on return).
HasSender(l) ==
    LET key == <<lookups[l].q, lookups[l].searcher>>
        qs == queries[lookups[l].node]
    IN  key \in DOMAIN qs /\ qs[key] = l

\* Environment::find_actor_ref, one turn of the loop over 0..num_remotes:
\* recv yields the next reply, or Err once the channel is empty and closed.
LookupRecv(l) ==
    /\ l \in DOMAIN lookups
    /\ lookups[l].pc = "recv"
    /\ lookups[l].got < lookups[l].num
    /\ lookups[l].chan # <<>> \/ ~HasSender(l)
    /\ lookups' = IF lookups[l].chan # <<>> /\ Head(lookups[l].chan).kind # "None"
           THEN [lookups EXCEPT ![l].result = Head(lookups[l].chan),
                                ![l].chan = Tail(@), ![l].pc = "cleanup"]
           ELSE [lookups EXCEPT ![l].got = @ + 1,
                                ![l].chan = IF @ = <<>> THEN @ ELSE Tail(@)]
    /\ UNCHANGED <<net_senders, load_balancer, channels, invincible, actors, outq, link,
                   queries, term, inbound, expiring, uuid, sent, hExpStop, hBcast,
                   ret, stream, received, written, threads>>

\* A find_actor_ref that returns without remove_remote_query.
LookupReturn_KeepEntry(l) ==
    /\ l \in DOMAIN lookups
    /\ \/ lookups[l].pc = "cleanup"
       \/ lookups[l].pc = "recv" /\ lookups[l].got = lookups[l].num
    /\ queries' = queries
    /\ lookups' = [lookups EXCEPT ![l].pc = "returned"]
    /\ UNCHANGED <<net_senders, load_balancer, channels, invincible, actors, outq, link,
                   term, inbound, expiring, uuid, sent, hExpStop, hBcast,
                   ret, stream, received, written, threads>>

\* Environment::find_actor_ref, after the loop: remove_remote_query and return.
LookupReturn(l) ==
    /\ l \in DOMAIN lookups
    /\ \/ lookups[l].pc = "cleanup"
       \/ lookups[l].pc = "recv" /\ lookups[l].got = lookups[l].num
    /\ queries' = [queries EXCEPT ![lookups[l].node] =
                       MapRemove(@, <<lookups[l].q, lookups[l].searcher>>)]
    /\ lookups' = [lookups EXCEPT ![l].pc = "returned"]
    /\ UNCHANGED <<net_senders, load_balancer, channels, invincible, actors, outq, link,
                   term, inbound, expiring, uuid, sent, hExpStop, hBcast,
                   ret, stream, received, written, threads>>

\* ---------------------------------------------------------------- workers
\* wait_for_local_messages: one item of the outbound queue is written to
\* the link of its target's node, or dropped when that node is no peer.
Outbound(n) ==
    /\ outq[n] # <<>>
    /\ LET id == Head(outq[n])[1]
           content == Head(outq[n])[2]
           frame == IF content.kind = "Message"
                    THEN [type |-> "Message", id |-> id, bin |-> content.bin]
                    ELSE [type |-> "SpecialToken", id |-> id, bin |-> content.bin]
       IN  link' = IF Location(id) \in Peers(n)
                   THEN [link EXCEPT ![n][Location(id)] = Append(@, frame)]
                   ELSE link
    /\ outq' = [outq EXCEPT ![n] = Tail(@)]
    /\ UNCHANGED <<net_senders, load_balancer, channels, invincible, actors,
                   queries, lookups, term, inbound, expiring, uuid, sent, hExpStop, hBcast,
                   ret, stream, received, written, threads>>

\* wait_for_remote_messages of node n on the link from peer p has read a
\* frame of the given type.
Reads(n, p, type) ==
    /\ inbound[n][p].st = "run"
    /\ link[p][n] # <<>>
    /\ Head(link[p][n]).type = type

Consumed(n, p) == [link EXCEPT ![p][n] = Tail(@)]

\* A worker that panics on a frame for an identifier that is not registered.
InboundMessage_PanicUnknown(n, p) ==
    /\ Reads(n, p, "Message") \/ Reads(n, p, "SpecialToken")
    /\ LET f == Head(link[p][n])
       IN  /\ actors' = HandleNetMessage(actors, n,
                  [kind |-> IF f.type = "Message" THEN "Message" ELSE "Token", bin |-> f.bin],
                  f.id)
           /\ inbound' = IF f.id \in DOMAIN channels[n] THEN inbound
                         ELSE [inbound EXCEPT ![n][p] = Worker("dead")]
    /\ link' = Consumed(n, p)
    /\ UNCHANGED <<net_senders, load_balancer, channels, invincible, outq,
                   queries, lookups, term, expiring, uuid, sent, hExpStop, hBcast,
                   ret, stream, received, written, threads>>

\* NetMessage::Message and NetMessage::SpecialToken
InboundMessage(n, p) ==
    /\ Reads(n, p, "Message") \/ Reads(n, p, "SpecialToken")
    /\ LET f == Head(link[p][n])
       IN  actors' = HandleNetMessage(actors, n,
               [kind |-> IF f.type = "Message" THEN "Message" ELSE "Token", bin |-> f.bin], f.id)
    /\ link' = Consumed(n, p)
    /\ UNCHANGED <<net_senders, load_balancer, channels, invincible, outq,
                   queries, lookups, term, inbound, expiring, uuid, sent, hExpStop, hBcast,
                   ret, stream, received, written, threads>>

\* A worker that also passes the Broadcast frame on to its own peers.
InboundBroadcast_Forward(n, p) ==
    /\ Reads(n, p, "Broadcast")
    /\ inbound' = [inbound EXCEPT ![n][p] =
           IF DOMAIN channels[n] = {} THEN @
           ELSE [st |-> "bcast", ids |-> DOMAIN channels[n], bin |-> Head(link[p][n]).bin]]
    /\ link' = WriteAll(Consumed(n, p), n, Head(link[p][n]))
    /\ UNCHANGED <<net_senders, load_balancer, channels, invincible, actors, outq,
                   queries, lookups, term, expiring, uuid, sent, hExpStop, hBcast,
                   ret, stream, received, written, threads>>

\* NetMessage::Broadcast: the keys of local_actor_channels are collected
\* under its lock; the payload is then handed to handle_net_message for one
\* identifier after the other.
InboundBroadcast(n, p) ==
    /\ Reads(n, p, "Broadcast")
    /\ inbound' = [inbound EXCEPT ![n][p] =
           IF DOMAIN channels[n] = {} THEN @
           ELSE [st |-> "bcast", ids |-> DOMAIN channels[n], bin |-> Head(link[p][n]).bin]]
    /\ link' = Consumed(n, p)
    /\ UNCHANGED <<net_senders, load_balancer, channels, invincible, actors, outq,
                   queries, lookups, term, expiring, uuid, sent, hExpStop, hBcast,
                   ret, stream, received, written, threads>>

\* NetMessage::Broadcast, one turn of the loop over the collected keys.
InboundBroadcastDeliver(n, p) ==
    /\ inbound[n][p].st = "bcast"
    /\ \E id \in inbound[n][p].ids :
        /\ actors' = HandleNetMessage(actors, n,
               [kind |-> "Message", bin |-> inbound[n][p].bin], id)
        /\ inbound' = [inbound EXCEPT ![n][p] =
               IF @.ids = {id} THEN Worker("run") ELSE [@ EXCEPT !.ids = @ \ {id}]]
    /\ UNCHANGED <<net_senders, load_balancer, channels, invincible, outq, link,
                   queries, lookups, term, expiring, uuid, sent, hExpStop, hBcast,
                   ret, stream, received, written, threads>>

\* NetMessage::RemoveProtector: remove_protector on this node.
InboundRemoveProtector(n, p) ==
    /\ Reads(n, p, "RemoveProtector")
    /\ LET f == Head(link[p][n])
       IN  /\ f.target \in DOMAIN invincible[n]
              \/ \A r \in Nodes : Len(link[n][r]) < MaxInFlight
           /\ invincible' = [invincible EXCEPT ![n] =
                  RemoveProtectorTable(@, f.protector, f.target)]
           /\ link' = IF f.target \in DOMAIN invincible[n] THEN Consumed(n, p)
                      ELSE WriteAll(Consumed(n, p), n, f)
    /\ UNCHANGED <<net_senders, load_balancer, channels, actors, outq,
                   queries, lookups, term, inbound, expiring, uuid, sent, hExpStop, hBcast,
                   ret, stream, received, written, threads>>

\* A worker that records the searcher as protector of every id it finds,
\* whatever the protect flag of the query says.
InboundQuery_ProtectAlways(n, p) ==
    /\ Reads(n, p, "QuerySpecifiedId")
    /\ LET f == Head(link[p][n])
           target == ActorId(Specified(f.q), n)
           found == target \in DOMAIN channels[n]
           reply == [type |-> "QuerySpecifiedIdResult", q |-> f.q,
                     searcher |-> f.searcher, result |-> IF found THEN n ELSE 0]
       IN  /\ invincible' = IF found
                  THEN [invincible EXCEPT ![n] = AddProtector(@, f.searcher, target)]
                  ELSE invincible
           /\ link' = IF f.ip \in Peers(n)
                  THEN [Consumed(n, p) EXCEPT ![n][f.ip] = Append(@, reply)]
                  ELSE Consumed(n, p)
    /\ UNCHANGED <<net_senders, load_balancer, channels, actors, outq,
                   queries, lookups, term, inbound, expiring, uuid, sent, hExpStop, hBcast,
                   ret, stream, received, written, threads>>

\* NetMessage::QuerySpecifiedId: the local search (with add_protector on a
\* protected hit) and the QuerySpecifiedIdResult written to the asking node.
InboundQuery(n, p) ==
    /\ Reads(n, p, "QuerySpecifiedId")
    /\ LET f == Head(link[p][n])
           target == ActorId(Specified(f.q), n)
           found == target \in DOMAIN channels[n]
           reply == [type |-> "QuerySpecifiedIdResult", q |-> f.q,
                     searcher |-> f.searcher, result |-> IF found THEN n ELSE 0]
       IN  /\ invincible' = IF found /\ f.protect
                  THEN [invincible EXCEPT ![n] = AddProtector(@, f.searcher, target)]
                  ELSE invincible
           /\ link' = IF f.ip \in Peers(n)
                  THEN [Consumed(n, p) EXCEPT ![n][f.ip] = Append(@, reply)]
                  ELSE Consumed(n, p)
    /\ UNCHANGED <<net_senders, load_balancer, channels, actors, outq,
                   queries, lookups, term, inbound, expiring, uuid, sent, hExpStop, hBcast,
                   ret, stream, received, written, threads>>

\* A worker that passes on positive answers only.
InboundResult_DropNone(n, p) ==
    /\ Reads(n, p, "QuerySpecifiedIdResult")
    /\ LET f == Head(link[p][n])
           key == <<f.q, f.searcher>>
           known == key \in DOMAIN queries[n]
       IN  /\ queries' = IF f.result # 0 /\ known
                  THEN [queries EXCEPT ![n] = MapRemove(@, key)]
                  ELSE queries
           /\ lookups' = IF ~known \/ f.result = 0 THEN lookups
                  ELSE [lookups EXCEPT ![queries[n][key]].chan = Append(@,
                            RemoteRef(ActorId(Specified(f.q), f.result)))]
    /\ link' = Consumed(n, p)
    /\ UNCHANGED <<net_senders, load_balancer, channels, invincible, actors, outq,
                   term, inbound, expiring, uuid, sent, hExpStop, hBcast,
                   ret, stream, received, written, threads>>

\* NetMessage::QuerySpecifiedIdResult: Some(ip) takes the sender out of
\* remote_queries and sends the remote reference; None sends None on the
\* sender found under the key.
InboundResult(n, p) ==
    /\ Reads(n, p, "QuerySpecifiedIdResult")
    /\ LET f == Head(link[p][n])
           key == <<f.q, f.searcher>>
           known == key \in DOMAIN queries[n]
       IN  /\ queries' = IF f.result # 0 /\ known
                  THEN [queries EXCEPT ![n] = MapRemove(@, key)]
                  ELSE queries
           /\ lookups' = IF ~known \/ lookups[queries[n][key]].pc = "returned" THEN lookups
                  ELSE [lookups EXCEPT ![queries[n][key]].chan = Append(@,
                            IF f.result # 0
                            THEN RemoteRef(ActorId(Specified(f.q), f.result))
                            ELSE NoRef)]
    /\ link' = Consumed(n, p)
    /\ UNCHANGED <<net_senders, load_balancer, channels, invincible, actors, outq,
                   term, inbound, expiring, uuid, sent, hExpStop, hBcast,
                   ret, stream, received, written, threads>>

\* A worker that registers the new actor under the address of the sender.
InboundSpawn_SenderLocation(n, p) ==
    /\ Reads(n, p, "SpawnByTypeId")
    /\ LET f == Head(link[p][n])
       IN  /\ actors' = Append(actors, NewActor(ActorId(f.lid, p)))
           /\ channels' = [channels EXCEPT ![n] =
                  MapInsert(@, ActorId(f.lid, p), Len(actors) + 1)]
    /\ link' = Consumed(n, p)
    /\ UNCHANGED <<net_senders, load_balancer, invincible, outq, inbound,
                   queries, lookups, term, expiring, uuid, sent, hExpStop, hBcast,
                   ret, stream, received, written, threads>>

\* NetMessage::SpawnByTypeId: spawn with SpawnHere(local id); an Err of
\* spawn panics the worker thread of this link.
InboundSpawn(n, p) ==
    /\ Reads(n, p, "SpawnByTypeId")
    /\ LET f == Head(link[p][n])
       IN  /\ IF ActorBuilderOk(f.tag)
              THEN /\ actors' = Append(actors, NewActor(ActorId(f.lid, n)))
                   /\ channels' = [channels EXCEPT ![n] =
                          MapInsert(@, ActorId(f.lid, n), Len(actors) + 1)]
                   /\ inbound' = inbound
              ELSE /\ inbound' = [inbound EXCEPT ![n][p] = Worker("dead")]
                   /\ UNCHANGED <<actors, channels>>
    /\ link' = Consumed(n, p)
    /\ UNCHANGED <<net_senders, load_balancer, invincible, outq,
                   queries, lookups, term, expiring, uuid, sent, hExpStop, hBcast,
                   ret, stream, received, written, threads>>

\* ------------------------------------------------------------- expiration
\* Runs of send_expiration_signal started on node n.
ExpireRuns(n) ==
    term[n] + expiring[n] + Cardinality({p \in Nodes : inbound[n][p].st = "expire"})

\* send_expiration_signal that notifies the peers and forgets the local Stops.
ExpireInject_SkipStops(n, l) ==
    /\ actors' = actors
    /\ link' = WriteAll(l, n, [type |-> "SendExpirationSignal"])
    /\ hExpStop' = hExpStop

\* send_expiration_signal, up to the sleep: SendExpirationSignal is written
\* to every peer and Special(Stop) is sent to every registered mailbox.
ExpireInject(n, l) ==
    /\ actors' = MboxSendAll(actors, Registered(n), Special(TokStop))
    /\ link' = WriteAll(l, n, [type |-> "SendExpirationSignal"])
    /\ hExpStop' = hExpStop \cup {a \in DOMAIN actors : actors'[a].mbox # actors[a].mbox}

\* Environment::set_expired called by a thread of node n.
SetExpired(n) ==
    /\ Started(n)
    /\ ExpireRuns(n) < MaxExpire
    /\ ExpireInject(n, link)
    /\ expiring' = [expiring EXCEPT ![n] = @ + 1]
    /\ UNCHANGED <<net_senders, load_balancer, channels, invincible, outq,
                   queries, lookups, term, inbound, uuid, sent, hBcast,
                   ret, stream, received, written, threads>>

\* send_expiration_signal after the sleep, in the thread that called
\* set_expired: one value is sent on the termination channel.
SetExpiredRelease(n) ==
    /\ expiring[n] > 0
    /\ term' = [term EXCEPT ![n] = @ + 1]
    /\ expiring' = [expiring EXCEPT ![n] = @ - 1]
    /\ UNCHANGED <<net_senders, load_balancer, channels, invincible, actors, outq, link,
                   queries, lookups, inbound, uuid, sent, hExpStop, hBcast,
                   ret, stream, received, written, threads>>

\* NetMessage::SendExpirationSignal: the inbound worker itself runs
\* send_expiration_signal.
InboundExpire(n, p) ==
    /\ Reads(n, p, "SendExpirationSignal")
    /\ ExpireRuns(n) < MaxExpire
    /\ ExpireInject(n, Consumed(n, p))
    /\ inbound' = [inbound EXCEPT ![n][p] = Worker("expire")]
    /\ UNCHANGED <<net_senders, load_balancer, channels, invincible, outq,
                   queries, lookups, term, expiring, uuid, sent, hBcast,
                   ret, stream, received, written, threads>>

\* send_expiration_signal after the sleep, in the inbound worker.
InboundExpireRelease(n, p) ==
    /\ inbound[n][p].st = "expire"
    /\ term' = [term EXCEPT ![n] = @ + 1]
    /\ inbound' = [inbound EXCEPT ![n][p] = Worker("run")]
    /\ UNCHANGED <<net_senders, load_balancer, channels, invincible, actors, outq, link,
                   queries, lookups, expiring, uuid, sent, hExpStop, hBcast,
                   ret, stream, received, written, threads>>

\* -------------------------------------------------------------- broadcast
\* LocalEnvironment::broadcast, first lock (local_actor_channels): a Regular
\* envelope carrying a clone for every registered mailbox.
Broadcast(n, m) ==
    /\ Started(n)
    /\ actors' = MboxSendAll(actors, Registered(n), Regular(m))
    /\ hBcast' = Append(hBcast, [node |-> n, msg |-> m, actors |-> Len(actors),
                                 written |-> FALSE])
    /\ UNCHANGED <<net_senders, load_balancer, channels, invincible, outq, link,
                   queries, lookups, term, inbound, expiring, uuid, sent, hExpStop,
                   ret, stream, received, written, threads>>

\* LocalEnvironment::broadcast, second lock (net_senders): a Broadcast frame
\* with the serialized message is written to every peer.
BroadcastWrite(i) ==
    /\ i \in DOMAIN hBcast
    /\ ~hBcast[i].written
    /\ link' = WriteAll(link, hBcast[i].node,
                        [type |-> "Broadcast", bin |-> Serialize(hBcast[i].msg)])
    /\ hBcast' = [hBcast EXCEPT ![i].written = TRUE]
    /\ UNCHANGED <<net_senders, load_balancer, channels, invincible, actors, outq,
                   queries, lookups, term, inbound, expiring, uuid, sent, hExpStop,
                   ret, stream, received, written, threads>>

\* ------------------------------------------------- specification: Spec
\* One node: spawn with a specified id, lookups with and without
\* protection, drop_protector, remove and the actor loops.
Searchers == {ActorId(Specified(8), 1), ActorId(Specified(9), 1)}
QueriedIds == {1}

Init == InitCluster(1)

\* Environment::spawn_local_with_id
SpawnLocalWithId(n, q) ==
    /\ Len(actors) < MaxActors
    /\ Spawn(n, "W", SpawnHere(Specified(q)))

\* Environment::find_actor_ref, the call
Find(n, q, s, protect) ==
    /\ Len(lookups) < MaxLookups
    /\ FindActorRef(n, q, s, protect)

Next ==
    \/ \E q \in QueriedIds : SpawnLocalWithId(1, q)
    \/ \E a \in DOMAIN actors : ActorStep(a)
    \/ \E a \in DOMAIN actors : RemoveLocal(a)
    \/ \E q \in QueriedIds, s \in Searchers, protect \in BOOLEAN : Find(1, q, s, protect)
    \/ \E l \in DOMAIN lookups : LookupRecv(l)
    \/ \E l \in DOMAIN lookups : LookupReturn(l)
    \/ \E s \in Searchers, q \in QueriedIds : DropProtector(1, s, ActorId(Specified(q), 1))

Spec == Init /\ [][Next]_vars

\* The protectors recorded for the identifier of instance a.
ProtectorsOf(a) ==
    IF Protected(NodeOf(a), actors[a].id) THEN invincible[NodeOf(a)][actors[a].id] ELSE {}

\* The loop of instance a pops a Stop and goes on waiting.
IgnoresStop(a) ==
    /\ actors[a].pc = "idle"
    /\ actors[a].mbox # <<>>
    /\ Head(actors[a].mbox) = Special(TokStop)
    /\ actors'[a].pc = "idle"
    /\ actors'[a].mbox = Tail(actors[a].mbox)

\* C1: a Stop delivered to an actor all of whose protectors have been
\* dropped completes the removal, i.e. the loop ignores a Stop only while at
\* least one protector of the actor remains.
C1_StopAfterRelease ==
    [][\A a \in DOMAIN actors : IgnoresStop(a) => ProtectorsOf(a) # {}]_vars

\* C2: while a searcher protects an identifier (find_actor_ref with protect
\* returned a reference and drop_protector was not called), the actor
\* registered under it is not removed and its loop has not exited.
C2_ProtectedNotRemoved ==
    \A id \in DOMAIN invincible[1] :
        invincible[1][id] # {} =>
            id \in DOMAIN channels[1] /\ Alive(channels[1][id])

\* Instance a is the only actor ever spawned under its identifier.
UniqueId(a) == \A b \in DOMAIN actors : actors[b].id = actors[a].id => b = a

\* C10: an actor spawned under a specified id is registered, hence found by
\* find_actor_ref, until it is removed; a find_actor_ref(id, searcher, false)
\* that is answered from the local registry names an actor whose loop has not
\* exited, i.e. none is found after the removal.
C10_FindableUntilRemoved ==
    /\ [](\A a \in DOMAIN actors :
            UniqueId(a) /\ actors[a].pc \in {"spawned", "on_start", "idle", "handle", "on_reset"}
                => actors[a].id \in DOMAIN channels[1])
    /\ [][\A l \in DOMAIN lookups' :
            (l \notin DOMAIN lookups /\ ~lookups'[l].protect /\ lookups'[l].chan # <<>>)
                => Alive(lookups'[l].chan[1].inst)]_vars

\* ------------------------------------------------ specification: SpecLB
\* Node 1 of a cluster of one, two or three nodes places actors through
\* spawn (Automatic) and spawn_with_id (User); the inbound workers of the
\* peers spawn what they are asked to.
InitLB == \E k \in Nodes : InitCluster(k)

RECURSIVE CountType(_, _)
CountType(frames, type) ==
    IF frames = <<>> THEN 0
    ELSE (IF Head(frames).type = type THEN 1 ELSE 0) + CountType(Tail(frames), type)

\* The actors node n has placed on slot j so far: slot 0 is the node
\* itself, slot j the j-th entry of net_senders (spawned there or on its way).
Placed(n, j) ==
    IF j = 0 THEN Cardinality({a \in DOMAIN actors : NodeOf(a) = n})
    ELSE Cardinality({a \in DOMAIN actors : NodeOf(a) = net_senders[n][j]})
         + CountType(link[n][net_senders[n][j]], "SpawnByTypeId")

RECURSIVE PlacedUpTo(_, _)
PlacedUpTo(n, j) == Placed(n, j) + (IF j = 0 THEN 0 ELSE PlacedUpTo(n, j - 1))

Placements(n) == PlacedUpTo(n, Len(net_senders[n]))

\* Environment::spawn
SpawnAny(n) ==
    /\ Placements(n) < MaxSpawnsLB
    /\ Spawn(n, "W", SpawnAutomatic)

\* Environment::spawn_with_id
SpawnWithId(n, q) ==
    /\ Placements(n) < MaxSpawnsLB
    /\ Spawn(n, "W", SpawnUser(Specified(q)))

NextLB ==
    \/ SpawnAny(1)
    \/ \E q \in QueriedIds : SpawnWithId(1, q)
    \/ \E n \in Nodes, p \in Nodes : InboundSpawn(n, p)

SpecLB == InitLB /\ [][NextLB]_vars

\* C3: after k placements by a node with N peers every one of the N+1 slots
\* holds floor(k/(N+1)) or ceil(k/(N+1)) actors (5 and 5 after 10 placements
\* with one peer).
C3_LoadBalance ==
    LET N == Len(net_senders[1])
        k == Placements(1)
    IN  \A j \in 0..N : Placed(1, j) \in {k \div (N + 1), (k + N) \div (N + 1)}

\* ----------------------------------------------- specification: SpecExp
\* Two nodes. Node 1 spawns actors under a specified id and looks the id up
\* with protection; either node is set expired; the inbound workers serve
\* the lookups and the expiration signal.
Searcher == ActorId(Specified(8), 1)

InitExp == InitCluster(2)

\* Environment::set_expired, called once in the cluster.
SetExpiredOnce(n) ==
    /\ \A m \in Nodes : ExpireRuns(m) = 0
    /\ SetExpired(n)

\* wait_for_remote_messages of node n on the link from p, the frames of
\* this specification.
InboundExp(n, p) ==
    \/ InboundQuery(n, p)
    \/ InboundResult(n, p)
    \/ InboundExpire(n, p)
    \/ InboundExpireRelease(n, p)

NextExp ==
    \/ \E q \in QueriedIds : SpawnLocalWithId(1, q)
    \/ \E a \in DOMAIN actors : ActorStep(a)
    \/ \E q \in QueriedIds : Find(1, q, Searcher, TRUE)
    \/ \E l \in DOMAIN lookups : LookupRecv(l)
    \/ \E l \in DOMAIN lookups : LookupReturn(l)
    \/ \E n \in Nodes : SetExpiredOnce(n)
    \/ \E n \in Nodes : SetExpiredRelease(n)
    \/ \E n \in Nodes, p \in Nodes : InboundExp(n, p)

SpecExp == InitExp /\ [][NextExp]_vars

\* A Stop is waiting in the mailbox of instance a.
StopPending(a) ==
    \E i \in DOMAIN actors[a].mbox :
        actors[a].mbox[i] = Special(TokStop)

\* C4: every actor that an expiration has sent its Stop, protected or not,
\* has that Stop still ahead of it or is running on_stop or has left its
\* loop; none goes back to waiting with the Stop consumed.
C4_ExpirationStopsAll ==
    \A a \in hExpStop :
        StopPending(a) \/ actors[a].pc \in {"on_stop", "remove", "remove_channel", "done"}

\* C5: after one set_expired in the cluster every node has sent at most one
\* value on its termination channel.
C5_ReleasedOnce == \A n \in Nodes : term[n] <= 1


\* ------------------------------------------- specification: SpecExpFair
\* A cluster of one or two nodes. Node 1 spawns actors (Automatic placement,
\* registered tag: local and on the peer), one node is set expired, and
\* every thread that can take a step eventually does: the actor loops, the thread inside
\* send_expiration_signal and the inbound worker of every link.
InitExpFair == \E k \in {1, 2} : InitCluster(k)

\* Environment::spawn
SpawnSome(n) ==
    /\ Len(actors) < MaxActors
    /\ \A m \in Nodes, p \in Nodes : CountType(link[m][p], "SpawnByTypeId") = 0
    /\ Spawn(n, "W", SpawnAutomatic)

\* wait_for_remote_messages of node n on the link from p, the frames of
\* this specification.
InboundExpFair(n, p) ==
    \/ InboundSpawn(n, p)
    \/ InboundExpire(n, p)
    \/ InboundExpireRelease(n, p)

NextExpFair ==
    \/ SpawnSome(1)
    \/ \E a \in DOMAIN actors : ActorStep(a)
    \/ \E n \in Nodes : SetExpiredOnce(n)
    \/ \E n \in Nodes : SetExpiredRelease(n)
    \/ \E n \in Nodes, p \in Nodes : InboundExpFair(n, p)

SpecExpFair ==
    /\ InitExpFair
    /\ [][NextExpFair]_vars
    /\ \A a \in 1..MaxActors : WF_vars(a \in DOMAIN actors /\ ActorStep(a))
    /\ \A n \in Nodes : WF_vars(SetExpiredRelease(n))
    /\ \A n \in Nodes, p \in Nodes : WF_vars(InboundExpFair(n, p))

\* Some node has started send_expiration_signal.
ExpirationStarted == \E n \in Nodes : ExpireRuns(n) > 0

\* Every node of the cluster has released its termination signal.
AllReleased == \A n \in Nodes : Started(n) => term[n] > 0

\* C6: once one node is set expired every node of the cluster eventually
\* releases its termination signal; the step that starts the expiration
\* routine on a node sends Stop to every live actor registered there, and a
\* release only ends a routine that has started (Stops first, release after).
C6_ClusterExpiration ==
    /\ ExpirationStarted ~> AllReleased
    /\ [][\A n \in Nodes :
            /\ ExpireRuns(n)' > ExpireRuns(n) =>
                   \A a \in Registered(n) : Alive(a) => a \in hExpStop' /\ StopPending(a)'
            /\ term'[n] > term[n] => ExpireRuns(n)' = ExpireRuns(n)]_vars

\* Both nodes of a two-node cluster have released after stopping an actor each.
C6_Witness ==
    /\ Len(net_senders[1]) = 1
    /\ term[1] > 0 /\ term[2] > 0
    /\ \E a \in hExpStop, b \in hExpStop : NodeOf(a) = 1 /\ NodeOf(b) = 2

\* ----------------------------------------------- specification: SpecMsg
\* Two nodes. Node 1 hosts the receiving actor; producer 1 is a thread of
\* node 1 that sends on a Local reference, producer 2 a thread of node 2
\* that sends on a Remote reference through the outbound queue of node 2,
\* the link and the inbound worker of node 1.
InitMsg == InitCluster(2)

\* Environment::spawn_local_with_id, for the receivers
SpawnReceiver(n, q) ==
    /\ Len(actors) < MaxReceivers
    /\ Spawn(n, "W", SpawnHere(Specified(q)))

NextMsg ==
    \/ \E q \in QueriedIds : SpawnReceiver(1, q)
    \/ \E a \in DOMAIN actors : ActorStep(a)
    \/ \E a \in DOMAIN actors : SendLocal(1, a)
    \/ \E q \in QueriedIds : SendRemote(2, 2, ActorId(Specified(q), 1))
    \/ Outbound(2)
    \/ InboundMessage(1, 2)

SpecMsg == InitMsg /\ [][NextMsg]_vars

\* The producer of a handled message and its number in the producer's sends.
ProducerOf(m) == m.v \div 10
NumberOf(m) == m.v % 10

\* C7: every actor handles the messages of one producer in the order the
\* producer sent them, through Local and through Remote references alike,
\* whatever the other producer sends in between.
C7_FifoPerSender ==
    \A a \in DOMAIN actors :
        \A i \in DOMAIN actors[a].log, j \in DOMAIN actors[a].log :
            (i < j /\ ProducerOf(actors[a].log[i]) = ProducerOf(actors[a].log[j]))
                => NumberOf(actors[a].log[i]) < NumberOf(actors[a].log[j])

\* One actor has handled two messages of each producer, those of the
\* remote producer between those of the local one.
C7_Witness ==
    \E a \in DOMAIN actors :
        /\ Len(actors[a].log) = 4
        /\ ProducerOf(actors[a].log[1]) = 1
        /\ ProducerOf(actors[a].log[2]) = 2
        /\ ProducerOf(actors[a].log[3]) = 2
        /\ ProducerOf(actors[a].log[4]) = 1

\* ---------------------------------------------- specification: SpecLoop
\* One node: actors are spawned, sent messages and resets, and removed.
InitLoop == InitCluster(1)

NextLoop ==
    \/ \E q \in QueriedIds : SpawnReceiver(1, q)
    \/ \E a \in DOMAIN actors : ActorStep(a)
    \/ \E a \in DOMAIN actors : SendLocal(1, a)
    \/ \E a \in DOMAIN actors : SendReset(a)
    \/ \E a \in DOMAIN actors : RemoveLocal(a)

SpecLoop == InitLoop /\ [][NextLoop]_vars

\* C8: at most one of on_start, handle, on_reset, on_stop of an actor is
\* executing at any time.
C8_SerialHandling == \A a \in DOMAIN actors : Len(actors[a].running) <= 1

\* handle of an actor executes while a Reset and a further message wait in
\* its mailbox.
C8_Witness ==
    \E a \in DOMAIN actors :
        /\ actors[a].running = <<"handle">>
        /\ Len(actors[a].mbox) = 2
        /\ actors[a].mbox[1] = Special(TokReset)
        /\ actors[a].mbox[2].kind = "Regular"

\* --------------------------------------------- specification: SpecBcast
\* Two nodes: node 1 spawns actors (the load balancer places them on either
\* node), either node broadcasts, actors are removed; every thread that can
\* take a step eventually does.
InitBcast == InitCluster(2)

\* Environment::broadcast(Ping(1)), called once in the cluster.
BroadcastOnce(n) == hBcast = <<>> /\ Broadcast(n, Msg("Ping", 1))

\* Environment::remove on an actor that waits for messages and has no Stop
\* waiting yet.
RemoveIdle(a) ==
    /\ actors[a].pc = "idle"
    /\ Special(TokStop) \notin SeqToSet(actors[a].mbox)
    /\ RemoveLocal(a)

InboundBcast(n, p) ==
    \/ InboundSpawn(n, p)
    \/ InboundBroadcast(n, p)
    \/ InboundBroadcastDeliver(n, p)

NextBcast ==
    \/ SpawnSome(1)
    \/ \E a \in DOMAIN actors : ActorStep(a)
    \/ \E a \in DOMAIN actors : RemoveIdle(a)
    \/ \E n \in Nodes : BroadcastOnce(n)
    \/ \E i \in DOMAIN hBcast : BroadcastWrite(i)
    \/ \E n \in Nodes, p \in Nodes : InboundBcast(n, p)

SpecBcast ==
    /\ InitBcast
    /\ [][NextBcast]_vars
    /\ \A a \in 1..MaxActors : WF_vars(a \in DOMAIN actors /\ ActorStep(a))
    /\ WF_vars(BroadcastWrite(1))
    /\ \A n \in Nodes, p \in Nodes : WF_vars(InboundBcast(n, p))

\* The envelopes of kind k in the mailbox of a that carry the number v.
CopiesAs(a, v, k) ==
    Cardinality({j \in DOMAIN actors[a].mbox :
        actors[a].mbox[j] \in {Regular(Msg("Ping", v)), Serialized(<<v>>)}
            /\ actors[a].mbox[j].kind = k})

\* The copies of broadcast i that actor a was sent: waiting or handled.
Copies(a, i) ==
    CopiesAs(a, i, "Regular") + CopiesAs(a, i, "Serialized")
        + Cardinality({j \in DOMAIN actors[a].log : actors[a].log[j].v = i})

\* C9: a broadcast eventually reaches every actor that was registered at the
\* call and stays alive, as a Regular envelope on the calling node and as a
\* Serialized envelope on a peer; no actor is ever sent two copies; Broadcast
\* frames travel only on the links out of a node that has broadcast.
C9_Broadcast ==
    /\ (hBcast # <<>>) ~>
           (/\ hBcast # <<>>
            /\ \A a \in 1..hBcast[1].actors : ~Alive(a) \/ Copies(a, 1) = 1)
    /\ [](\A i \in DOMAIN hBcast, a \in DOMAIN actors :
             /\ Copies(a, i) <= 1
             /\ CopiesAs(a, i, "Regular") > 0 => NodeOf(a) = hBcast[i].node
             /\ CopiesAs(a, i, "Serialized") > 0 => NodeOf(a) # hBcast[i].node)
    /\ [](\A n \in Nodes, p \in Nodes :
             CountType(link[n][p], "Broadcast") <=
                 Cardinality({i \in DOMAIN hBcast : hBcast[i].node = n /\ hBcast[i].written}))

\* One broadcast has reached an actor of the calling node as a Regular
\* envelope and an actor of the peer as a Serialized envelope, and both have
\* handled it.
C9_Witness ==
    /\ Len(hBcast) = 1
    /\ \E a \in DOMAIN actors, b \in DOMAIN actors :
        /\ NodeOf(a) = hBcast[1].node /\ NodeOf(b) # hBcast[1].node
        /\ hBcast[1].actors >= a /\ hBcast[1].actors >= b
        /\ Len(actors[a].log) = 1 /\ Len(actors[b].log) = 1
        /\ Copies(a, 1) = 1 /\ Copies(b, 1) = 1

\* ---------------------------------------------- specification: SpecFind
\* Three nodes. Nodes 2 and 3 spawn actors under a specified id; afterwards
\* node 1 looks the id up, repeatedly with the same searcher, and the
\* inbound workers serve the queries and the results.
InitFind == InitCluster(3)

\* Environment::spawn_local_with_id with an id the node has not registered,
\* before any lookup.
SpawnHolder(n, q) ==
    /\ lookups = <<>>
    /\ ActorId(Specified(q), n) \notin DOMAIN channels[n]
    /\ SpawnLocalWithId(n, q)

\* Environment::find_actor_ref called by the searcher once its previous
\* call has returned.
FindAgain(n, q) ==
    /\ \A l \in DOMAIN lookups : lookups[l].pc = "returned"
    /\ Find(n, q, Searcher, FALSE)

InboundFind(n, p) ==
    \/ InboundQuery(n, p)
    \/ InboundResult(n, p)

NextFind ==
    \/ \E n \in {2, 3}, q \in QueriedIds : SpawnHolder(n, q)
    \/ \E q \in QueriedIds : FindAgain(1, q)
    \/ \E l \in DOMAIN lookups : LookupRecv(l)
    \/ \E l \in DOMAIN lookups : LookupReturn(l)
    \/ \E n \in Nodes, p \in Nodes : InboundFind(n, p)

SpecFind == InitFind /\ [][NextFind]_vars

\* The peers of node n that have the specified id q registered.
Holders(n, q) == {p \in Peers(n) : ActorId(Specified(q), p) \in DOMAIN channels[p]}

\* C11: a lookup of an id that is not registered locally returns a remote
\* reference to a peer that holds the id if some peer holds it, and none
\* only if no peer holds it (every peer has answered this lookup with none).
C11_LookupResult ==
    \A l \in DOMAIN lookups :
        lookups[l].pc = "returned" =>
            IF Holders(lookups[l].node, lookups[l].q) = {}
            THEN lookups[l].result = NoRef
            ELSE /\ lookups[l].result.kind = "Remote"
                 /\ LocalIdOf(lookups[l].result.id) = Specified(lookups[l].q)
                 /\ Location(lookups[l].result.id) \in Holders(lookups[l].node, lookups[l].q)

\* ------------------------------------------ specification: SpecFindFair
\* A cluster of one, two or three nodes. Nodes 1 and 2 spawn actors under a
\* specified id before the lookups; node 1 looks the id up, also from
\* several threads at once; every lookup thread and every inbound worker that can
\* take a step eventually does.
InitFindFair == \E k \in Nodes : InitCluster(k)

NextFindFair ==
    \/ \E n \in {1, 2}, q \in QueriedIds : SpawnHolder(n, q)
    \/ \E q \in QueriedIds : Find(1, q, Searcher, FALSE)
    \/ \E l \in DOMAIN lookups : LookupRecv(l)
    \/ \E l \in DOMAIN lookups : LookupReturn(l)
    \/ \E n \in Nodes, p \in Nodes : InboundFind(n, p)

SpecFindFair ==
    /\ InitFindFair
    /\ [][NextFindFair]_vars
    /\ \A l \in 1..MaxLookups : WF_vars(LookupRecv(l))
    /\ \A l \in 1..MaxLookups : WF_vars(LookupReturn(l))
    /\ \A n \in Nodes, p \in Nodes : WF_vars(InboundFind(n, p))

\* The nodes of the cluster that have the specified id q registered.
Registrars(q) == {n \in Nodes : ActorId(Specified(q), n) \in DOMAIN channels[n]}

\* C12: every lookup eventually returns; a lookup of an id that no node has
\* registered returns none; on a node without peers the lookup never waits
\* for a reply.
C12_LookupTerminates ==
    /\ \A l \in 1..MaxLookups :
          (l \in DOMAIN lookups) ~> (l \in DOMAIN lookups /\ lookups[l].pc = "returned")
    /\ [](\A l \in DOMAIN lookups :
             lookups[l].pc = "returned" /\ Registrars(lookups[l].q) = {}
                 => lookups[l].result = NoRef)
    /\ [](\A l \in DOMAIN lookups :
             lookups[l].pc = "recv" /\ Peers(lookups[l].node) = {}
                 => lookups[l].chan # <<>> \/ lookups[l].got = lookups[l].num)

\* In a cluster of three nodes a lookup of an id that no node has registered
\* has returned none after the negative answers of both peers.
C12_Witness ==
    /\ Len(net_senders[1]) = 2
    /\ \E l \in DOMAIN lookups :
        /\ lookups[l].pc = "returned" /\ lookups[l].got = 2
        /\ Registrars(lookups[l].q) = {}
        /\ lookups[l].result = NoRef

\* --------------------------------------------- specification: SpecCodec
\* Two nodes. Node 1 hosts the receiving actor; a thread of node 2 sends it
\* one message of every registered type through a Remote reference.
InitCodec == InitCluster(2)

\* The messages sent: one value of every type of the handler table.
CodecMsgs == {Msg("Ping", 1), Msg("DoWorkMessage", 2), Msg("StartWorkMessage", 3)}

\* ActorRef::send_message(m) on a Remote reference held on node n.
SendValue(n, id, m) ==
    /\ Started(n)
    /\ Location(id) # n
    /\ sent[n] < MaxMsgs
    /\ outq' = OutqSend(outq, n, <<id, [kind |-> "Message", bin |-> Serialize(m)]>>)
    /\ sent' = [sent EXCEPT ![n] = @ + 1]
    /\ ret' = ret \cup {Returned("send", n, RemoteRef(id), SendRemoteResult(n))}
    /\ UNCHANGED <<net_senders, load_balancer, channels, invincible, actors, link,
                   queries, lookups, term, inbound, expiring, uuid, hExpStop, hBcast,
                   stream, received, written, threads>>

NextCodec ==
    \/ \E q \in QueriedIds : SpawnReceiver(1, q)
    \/ \E a \in DOMAIN actors : ActorStep(a)
    \/ \E q \in QueriedIds, m \in CodecMsgs : SendValue(2, ActorId(Specified(q), 1), m)
    \/ Outbound(2)
    \/ InboundMessage(1, 2)

SpecCodec == InitCodec /\ [][NextCodec]_vars

\* C13: every message the receiver decodes and handles is one of the
\* messages sent, with its value and its type.
C13_RoundTrip ==
    \A a \in DOMAIN actors : \A j \in DOMAIN actors[a].log : actors[a].log[j] \in CodecMsgs

\* ---------------------------------------------- specification: SpecSend
\* A cluster of one or two nodes. Node 1 spawns an actor, removes it, and
\* asks to_actor_ref for references to local and remote identifiers; threads
\* of node 1 send on the references that spawn and to_actor_ref returned.
InitSend == \E k \in {1, 2} : InitCluster(k)

\* A to_actor_ref that does not compare the location with the own address.
ToActorRefResult_AlwaysRemote(n, id) ==
    Returned("to_actor_ref", n, RemoteRef(id), "Ok")

\* LocalEnvironment::to_actor_ref: a Local reference if the id is registered
\* here, ActorNotFound if it should be here and is not, and a Remote
\* reference for every id of another location.
ToActorRefResult(n, id) ==
    IF Location(id) = n
    THEN IF id \in DOMAIN channels[n]
         THEN Returned("to_actor_ref", n, LocalRef(id, channels[n][id]), "Ok")
         ELSE Returned("to_actor_ref", n, NoRef, "ActorNotFound")
    ELSE Returned("to_actor_ref", n, RemoteRef(id), "Ok")

\* Environment::to_actor_ref
ToActorRef(n, id) ==
    /\ Started(n)
    /\ ret' = ret \cup {ToActorRefResult(n, id)}
    /\ UNCHANGED <<net_senders, load_balancer, channels, invincible, actors, outq, link,
                   queries, lookups, term, inbound, expiring, uuid, sent, hExpStop, hBcast,
                   stream, received, written, threads>>

\* The identifiers asked of to_actor_ref: the specified ids on either node.
AskedIds == {ActorId(Specified(q), n) : q \in QueriedIds, n \in {1, 2}}

NextSend ==
    \/ \E q \in QueriedIds : SpawnReceiver(1, q)
    \/ \E a \in DOMAIN actors : ActorStep(a)
    \/ \E a \in DOMAIN actors : RemoveIdle(a)
    \/ \E id \in AskedIds : ToActorRef(1, id)
    \/ \E r \in ret : r.ref.kind = "Local" /\ SendLocal(1, r.ref.inst)
    \/ \E r \in ret : r.ref.kind = "Remote" /\ SendRemote(2, r.node, r.ref.id)
    \/ Outbound(1)

SpecSend == InitSend /\ [][NextSend]_vars

\* C14: a send on a Local reference returns InvalidActorRef exactly when the
\* loop of the actor has exited, a send on a Remote reference returns
\* NetworkError exactly when the outbound queue of the node is closed (the
\* node has no peers); every other send returns Ok.
C14_SendErrors ==
    [][\A r \in ret' \ ret :
          r.call = "send" =>
              /\ r.ref.kind = "Local" =>
                     r.res = (IF actors[r.ref.inst].pc = "done"
                              THEN "InvalidActorRef" ELSE "Ok")
              /\ r.ref.kind = "Remote" =>
                     r.res = (IF net_senders[r.node] = <<>> THEN "NetworkError" ELSE "Ok")]_vars

\* --------------------------------------------- specification: SpecPlace
\* A cluster of two or three nodes. Node 1 calls spawn and spawn_with_id
\* with a registered tag; the load balancer places the actors, the inbound
\* workers of the peers serve SpawnByTypeId, and the actor loops run.
InitPlace == \E k \in {2, 3} : InitCluster(k)

\* Environment::spawn and Environment::spawn_with_id, MaxActors calls.
SpawnPlaced(n, sid) ==
    /\ Cardinality(ret) < MaxActors
    /\ Spawn(n, "W", sid)

NextPlace ==
    \/ \E sid \in {SpawnAutomatic} \cup {SpawnUser(Specified(q)) : q \in SpecIds} :
          SpawnPlaced(1, sid)
    \/ \E a \in DOMAIN actors : ActorStep(a)
    \/ \E n \in Nodes, p \in Nodes : InboundSpawn(n, p)

SpecPlace == InitPlace /\ [][NextPlace]_vars

\* The SpawnByTypeId frames in a sequence of frames that carry local id lid.
SpawnFrames(frames, lid) ==
    {j \in DOMAIN frames : frames[j].type = "SpawnByTypeId" /\ frames[j].lid = lid}

\* C15: a spawn placed on a peer returns a Remote reference at once, in the
\* step that writes the SpawnByTypeId frame with the local id of the
\* reference to that peer; the peer registers the new actor under the
\* identifier of the reference, and every actor of a peer has the identifier
\* of a returned reference.
C15_RemotePlacement ==
    /\ [][\A r \in ret' \ ret :
             r.ref.kind = "Remote" =>
                 /\ Location(r.ref.id) \in Peers(r.node)
                 /\ link'[r.node][Location(r.ref.id)] =
                        Append(link[r.node][Location(r.ref.id)],
                               [type |-> "SpawnByTypeId", tag |-> "W",
                                lid |-> LocalIdOf(r.ref.id)])
                 /\ actors' = actors]_vars
    /\ [](\A r \in ret :
             r.ref.kind = "Remote" =>
                 \/ SpawnFrames(link[r.node][Location(r.ref.id)], LocalIdOf(r.ref.id)) # {}
                 \/ /\ r.ref.id \in DOMAIN channels[Location(r.ref.id)]
                    /\ actors[channels[Location(r.ref.id)][r.ref.id]].id = r.ref.id)
    /\ [](\A a \in DOMAIN actors :
             NodeOf(a) # 1 =>
                 /\ Returned("spawn", 1, RemoteRef(actors[a].id), "Ok") \in ret
                 /\ actors[a].id \in DOMAIN channels[NodeOf(a)])

\* spawn_with_id has returned a Remote reference to a peer after an earlier
\* local placement, and that peer has registered a running actor under the
\* identifier of the reference.
C15_Witness ==
    \E r \in ret :
        /\ r.ref.kind = "Remote"
        /\ LocalIdOf(r.ref.id) = Specified(1)
        /\ r.ref.id \in DOMAIN channels[Location(r.ref.id)]
        /\ actors[channels[Location(r.ref.id)][r.ref.id]].pc = "idle"
        /\ \E t \in ret : t.ref.kind = "Local"

\* ---------------------------------------------- specification: SpecStop
\* One node without protectors: actors are spawned, sent messages through
\* Local references, and removed; every actor loop that can
\* take a step eventually does (handlers return).
InitStop == InitCluster(1)

StopWaits(a) == Special(TokStop) \in SeqToSet(actors[a].mbox)

\* Environment::remove on a Local reference to a live actor that has no Stop
\* waiting yet.
RemoveLive(a) ==
    /\ Alive(a)
    /\ ~StopWaits(a)
    /\ RemoveLocal(a)

NextStop ==
    \/ \E q \in QueriedIds : SpawnReceiver(1, q)
    \/ \E a \in DOMAIN actors : ActorStep(a)
    \/ \E a \in DOMAIN actors : SendLocal(1, a)
    \/ \E a \in DOMAIN actors : RemoveLive(a)

SpecStop ==
    /\ InitStop
    /\ [][NextStop]_vars
    /\ \A a \in 1..(MaxReceivers + 1) : WF_vars(a \in DOMAIN actors /\ ActorStep(a))

\* The loop of a has taken a Stop it obeys: on_stop, remove, exit.
Stopping(a) == actors[a].pc \in {"on_stop", "remove", "remove_channel", "done"}

\* The messages of the Regular envelopes of mailbox mb in front of its
\* first Stop.
RECURSIVE BeforeStop(_)
BeforeStop(mb) ==
    IF mb = <<>> \/ Head(mb) = Special(TokStop) THEN <<>>
    ELSE IF Head(mb).kind = "Regular" THEN <<Head(mb).msg>> \o BeforeStop(Tail(mb))
    ELSE BeforeStop(Tail(mb))

\* What a has handled, followed by what was enqueued before the first Stop.
ToHandle(a) ==
    IF Stopping(a) THEN actors[a].log
    ELSE actors[a].log \o BeforeStop(actors[a].mbox)

\* C16: after remove on a Local reference to an unprotected live actor the
\* actor eventually has called on_stop and exited with its registration
\* removed; on_stop is entered once (a stopping loop never leaves the
\* stop path); from the enqueueing of the Stop on, the messages the actor
\* ever handles are exactly those handled or enqueued before the Stop, all
\* of them handled when on_stop is called; a send on the reference after the
\* loop has exited returns InvalidActorRef.
C16_Remove ==
    /\ \A a \in 1..(MaxReceivers + 1) :
          (IF a \in DOMAIN actors THEN StopWaits(a) ELSE FALSE)
              ~> (IF a \in DOMAIN actors
                  THEN /\ actors[a].pc = "done"
                       /\ \A id \in DOMAIN channels[1] : channels[1][id] # a
                  ELSE FALSE)
    /\ [][\A a \in DOMAIN actors :
             /\ Stopping(a) => Stopping(a)'
             /\ actors[a].pc \in {"remove", "remove_channel", "done"}
                    => actors'[a].pc # "on_stop"
             /\ (StopWaits(a) \/ Stopping(a)) => ToHandle(a)' = ToHandle(a)
             /\ actors'[a].pc = "on_stop" => ToHandle(a)' = actors'[a].log]_vars
    /\ [][\A r \in ret' \ ret :
             (r.call = "send" /\ actors[r.ref.inst].pc = "done")
                 => r.res = "InvalidActorRef"]_vars

\* An actor has handled one message, was removed and has exited with its
\* registration removed, and a send on its reference after the exit has
\* returned InvalidActorRef.
C16_Witness ==
    \E a \in DOMAIN actors :
        /\ actors[a].pc = "done"
        /\ actors[a].id \notin DOMAIN channels[1]
        /\ Len(actors[a].log) = 1
        /\ sent[1] > 1
        /\ \E r \in ret : r.call = "send" /\ r.ref.inst = a /\ r.res = "InvalidActorRef"

\* ------------------------------------------------------------ on_start
\* on_start of actor instance a has been called and has returned.
OnStartCompleted(a) == actors[a].pc \notin {"spawned", "on_start"}

\* C17: when spawn has returned a Local reference, on_start of the new
\* actor has completed.
C17_OnStartBeforeReturn ==
    \A r \in ret :
        (r.call = "spawn" /\ r.ref.kind = "Local") => OnStartCompleted(r.ref.inst)

\* ------------------------------------------------------ identifier owners
\* The actor loops that have not exited and own identifier id.
Owners(id) == {a \in DOMAIN actors : Alive(a) /\ actors[a].id = id}

\* C18: at most one running actor loop owns a given actor identifier, also
\* after a spawn with placement Here(id) of an id that is already registered.
C18_UniqueId == \A a \in DOMAIN actors : Cardinality(Owners(actors[a].id)) <= 1

\* ------------------------------------------------------------ netchannel
\* The size of the buffer wait_for_remote_messages hands to read.
BUFFERSIZE == 524288

\* bin_obj.len() as u16
AsU16(x) == x % 65536

\* u16::to_be_bytes
ToBeBytes(x) == <<x \div 256, x % 256>>

\* NetSender::write: the bytes handed to the stream for payload bin, the
\* length as u16 in big-endian order followed by the payload.
WriteBytes(bin) == ToBeBytes(AsU16(Len(bin))) \o bin

\* NetReceiver::read: the buffer after stream.read, zeroed by the caller and
\* filled with the bytes of the stream (index from 0).
BufferAt(buf, i) == IF i < Len(buf) THEN buf[i + 1] ELSE 0

\* ((size_bits[0] as u16) * 256) | size_bits[1] as u16
SizeAt(buf, pointer) == BufferAt(buf, pointer) * 256 + BufferAt(buf, pointer + 1)

\* NetReceiver::read: the slices pushed to results from pointer on.
RECURSIVE ReadFrom(_, _)
ReadFrom(buf, pointer) ==
    LET len == SizeAt(buf, pointer)
    IN  IF len = 0 THEN <<>>
        ELSE <<[i \in 1..len |-> BufferAt(buf, pointer + 2 + i - 1)]>>
                 \o ReadFrom(buf, pointer + 2 + len)

ReadResult(buf) == ReadFrom(buf, 0)

\* NetSender::write(bin) on the connection; the stream takes all the bytes.
NetSenderWrite(bin) ==
    /\ Len(written) < MaxFrames
    /\ Len(stream) + Len(bin) + 4 <= BUFFERSIZE
    /\ stream' = stream \o WriteBytes(bin)
    /\ written' = Append(written, bin)
    /\ UNCHANGED <<net_senders, load_balancer, channels, invincible, actors, outq, link,
                   queries, lookups, term, inbound, expiring, uuid, sent, hExpStop, hBcast,
                   ret, received, threads>>

\* NetReceiver::read on a buffer of cap bytes: a slice that reaches beyond
\* the end of the buffer (the two bytes of a prefix or the bytes of a
\* payload) panics.
RECURSIVE ReadPanics(_, _, _)
ReadPanics(buf, cap, pointer) ==
    IF pointer + 2 > cap THEN TRUE
    ELSE LET len == SizeAt(buf, pointer)
         IN  IF len = 0 THEN FALSE
             ELSE IF pointer + 2 + len > cap THEN TRUE
             ELSE ReadPanics(buf, cap, pointer + 2 + len)

\* NetReceiver::read(buffer) with a zeroed buffer of cap bytes, as
\* wait_for_remote_messages hands it over; stream.read takes the first size
\* bytes of the stream. A panic of read ends the calling worker thread and
\* returns nothing.
ReadInto(cap, size) ==
    /\ inbound[1][2].st = "run"
    /\ size \in 1..Len(stream)
    /\ size <= cap
    /\ LET buf == SubSeq(stream, 1, size)
       IN  IF ReadPanics(buf, cap, 0)
           THEN /\ received' = received
                /\ inbound' = [inbound EXCEPT ![1][2] = Worker("dead")]
           ELSE /\ received' = received \o ReadResult(buf)
                /\ inbound' = inbound
    /\ stream' = SubSeq(stream, size + 1, Len(stream))
    /\ UNCHANGED <<net_senders, load_balancer, channels, invincible, actors, outq, link,
                   queries, lookups, term, expiring, uuid, sent, hExpStop, hBcast,
                   ret, written, threads>>

\* NetReceiver::read(buffer) on the connection; stream.read returns all the
\* bytes written so far.
NetReceiverRead == ReadInto(BUFFERSIZE, Len(stream))

\* --------------------------------------------- specification: SpecFrame
\* One connection of a NetSender and a NetReceiver: payloads of the lengths
\* PayloadLens are written, and read whenever bytes are waiting.
InitFrame == InitCluster(1)

PayloadLens == {1, 2, 255, 256, 65535, 65536}

\* A payload of L bytes.
Payload(L) == [i \in 1..L |-> (i * 7) % 256]

NextFrame ==
    \/ \E L \in PayloadLens : NetSenderWrite(Payload(L))
    \/ NetReceiverRead

SpecFrame == InitFrame /\ [][NextFrame]_vars

\* C19: for every payload of 1 to 65536 bytes the length prefix written by
\* NetSender::write decodes to the length of the payload, and once the bytes
\* have been read NetReceiver::read has returned the payloads written.
C19_FrameSize ==
    /\ [][written' # written =>
             SizeAt(stream', Len(stream)) = Len(written'[Len(written')])]_vars
    /\ [](stream = <<>> => received = written)

\* ------------------------------------------------ specification: SpecRef
\* One node alone or two nodes. Node 1 spawns with a registered tag (the
\* load balancer places the actors), looks specified ids up and converts
\* identifiers of any address to references.
InitRef == \E k \in {1, 2} : InitCluster(k)

\* Environment::spawn and Environment::spawn_with_id, MaxActors calls.
SpawnRef(n, sid) ==
    /\ Cardinality({r \in ret : r.call = "spawn"}) < MaxActors
    /\ Spawn(n, "W", sid)

\* The identifiers asked of to_actor_ref: the specified ids on any address.
AnyIds == {ActorId(Specified(q), n) : q \in QueriedIds, n \in Nodes}

NextRef ==
    \/ \E sid \in {SpawnAutomatic} \cup {SpawnUser(Specified(q)) : q \in QueriedIds} :
          SpawnRef(1, sid)
    \/ \E n \in Nodes, p \in Nodes : InboundSpawn(n, p)
    \/ \E id \in AnyIds : ToActorRef(1, id)
    \/ \E q \in QueriedIds : FindAgain(1, q)
    \/ \E l \in DOMAIN lookups : LookupRecv(l)
    \/ \E l \in DOMAIN lookups : LookupReturn(l)
    \/ \E n \in Nodes, p \in Nodes : InboundFind(n, p)

SpecRef == InitRef /\ [][NextRef]_vars

\* The references the calls of operation call have produced, with the node
\* of the call.
RefsOf(call) ==
    IF call = "find_actor_ref"
    THEN {[node |-> lookups[l].node, ref |-> lookups[l].result] :
             l \in {x \in DOMAIN lookups : lookups[x].pc = "returned"}}
    ELSE {[node |-> r.node, ref |-> r.ref] : r \in {x \in ret : x.call = call}}

Produced == RefsOf("spawn") \cup RefsOf("find_actor_ref") \cup RefsOf("to_actor_ref")

\* C20 as stated: a produced reference is Local only if its identifier
\* resides on the node of the call, and Remote only if it resides on
\* another node that is a key of net_senders.
C20_Endpoint ==
    \A x \in Produced :
        /\ x.ref.kind = "Local" => Location(x.ref.id) = x.node
        /\ x.ref.kind = "Remote" =>
               Location(x.ref.id) # x.node /\ Location(x.ref.id) \in Peers(x.node)

\* C20, amended: a produced reference is Local only if its identifier
\* resides on the node of the call and Remote only if it resides on another
\* address; a Remote reference produced by spawn or find_actor_ref resides
\* on a key of net_senders, one produced by to_actor_ref on any other address.
C20_EndpointAmended ==
    /\ \A x \in Produced :
        /\ x.ref.kind = "Local" => Location(x.ref.id) = x.node
        /\ x.ref.kind = "Remote" => Location(x.ref.id) # x.node
    /\ \A x \in RefsOf("spawn") \cup RefsOf("find_actor_ref") :
        x.ref.kind = "Remote" => Location(x.ref.id) \in Peers(x.node)

\* On a node with one peer spawn, find_actor_ref and to_actor_ref have each
\* produced a Remote reference, to_actor_ref one to an address that is no
\* key of net_senders, and spawn has produced a Local reference.
C20_Witness ==
    /\ \E x \in RefsOf("spawn") : x.ref.kind = "Remote"
    /\ \E x \in RefsOf("spawn") : x.ref.kind = "Local"
    /\ \E x \in RefsOf("find_actor_ref") : x.ref.kind = "Remote"
    /\ \E x \in RefsOf("to_actor_ref") :
          x.ref.kind = "Remote" /\ Location(x.ref.id) \notin Peers(x.node)

\* --------------------------------------------- specification: SpecSpawn
\* Two nodes. Node 1 calls spawn, spawn_with_id, spawn_local and
\* spawn_local_with_id with a registered and with an unregistered type tag
\* and sends messages on the Remote references spawn returned; the outbound
\* worker of node 1 and the inbound workers run.
InitSpawn == InitCluster(2)

SpawnTags == KnownTags \cup {"X"}

\* The local ids of spawn_local (a fresh Uuid) and spawn_local_with_id.
HereIds == {Automatic(uuid + 1)} \cup {Specified(q) : q \in QueriedIds}

\* One of the four spawn calls of the API, while fewer than MaxActors
\* actors are placed.
SpawnCall(n, tag, sid) ==
    /\ Placements(n) < MaxActors
    /\ Spawn(n, tag, sid)

\* send_message on a Remote reference that spawn has returned.
SendSpawned(n) ==
    \E r \in ret :
        /\ r.call = "spawn" /\ r.node = n /\ r.ref.kind = "Remote"
        /\ SendRemote(2, n, r.ref.id)

NextSpawn ==
    \/ \E tag \in SpawnTags,
          sid \in {SpawnAutomatic} \cup {SpawnUser(Specified(q)) : q \in QueriedIds}
                  \cup {SpawnHere(lid) : lid \in HereIds} :
          SpawnCall(1, tag, sid)
    \/ SendSpawned(1)
    \/ Outbound(1)
    \/ \E n \in Nodes, p \in Nodes : InboundSpawn(n, p)
    \/ \E n \in Nodes, p \in Nodes : InboundMessage(n, p)

SpecSpawn == InitSpawn /\ [][NextSpawn]_vars

\* The newest actor instance has identifier id and is what
\* local_actor_channels of its node holds for id.
NewlyRegistered(id) ==
    /\ actors # <<>>
    /\ actors[Len(actors)].id = id
    /\ id \in DOMAIN channels[Location(id)]
    /\ channels[Location(id)][id] = Len(actors)

\* The local ids drawn or specified so far.
LocalIds == {Automatic(u) : u \in 1..(uuid + 1)} \cup {Specified(q) : q \in QueriedIds}

\* C21: spawn_local and spawn_local_with_id, and the spawn an inbound worker
\* runs for a SpawnByTypeId frame, register the new actor on the node itself
\* whatever the state of the load balancer, write no frame to any link and
\* leave the load balancer untouched.
C21_HereIsLocal ==
    /\ [][\A n \in Nodes, lid \in HereIds :
             Spawn(n, "W", SpawnHere(lid)) =>
                 /\ Len(actors') = Len(actors) + 1
                 /\ NewlyRegistered(ActorId(lid, n))'
                 /\ link' = link
                 /\ load_balancer' = load_balancer]_vars
    /\ [][\A n \in Nodes, p \in Nodes, lid \in LocalIds :
             (InboundSpawn(n, p) /\ Head(link[p][n]).lid = lid
                  /\ ActorBuilderOk(Head(link[p][n]).tag)) =>
                 /\ Len(actors') = Len(actors) + 1
                 /\ NewlyRegistered(ActorId(lid, n))'
                 /\ link' = Consumed(n, p)
                 /\ load_balancer' = load_balancer]_vars

\* On a node with peers whose load balancer places the next actor on a
\* peer, spawn_local_with_id has just registered its actor locally.
C21_Witness ==
    /\ NextMachineNo(load_balancer[1]).res # 0
    /\ NewlyRegistered(ActorId(Specified(1), 1))
    /\ Returned("spawn", 1, LocalRef(ActorId(Specified(1), 1), Len(actors)), "Ok") \in ret
    /\ \A p \in Nodes : link[1][p] = <<>>


\* The error value a failed local spawn returns.
SpawnFailed(n) == Returned("spawn", n, [NoRef EXCEPT !.kind = "SpawnFailed"], "SpawnFailed")

\* C22: a spawn that is placed locally (by SpawnHere or by the load
\* balancer) with a type tag the actor factory does not know returns
\* SpawnFailed, leaves local_actor_channels as it was, starts no actor loop
\* and writes no frame.
C22_UnknownTagLocal ==
    [][\A n \in Nodes,
          sid \in {SpawnAutomatic} \cup {SpawnUser(Specified(q)) : q \in QueriedIds}
                  \cup {SpawnHere(lid) : lid \in HereIds} :
          (Spawn(n, "X", sid) /\ MachineNo(n, sid) = 0) =>
              /\ SpawnFailed(n) \in ret'
              /\ ret' \ ret \subseteq {SpawnFailed(n)}
              /\ channels' = channels
              /\ actors' = actors
              /\ link' = link /\ outq' = outq]_vars

\* A local spawn has failed with SpawnFailed on a node that holds a
\* registered actor and whose load balancer has been asked; no spawn was
\* placed on a peer.
C22_Witness ==
    /\ SpawnFailed(1) \in ret
    /\ DOMAIN channels[1] # {}
    /\ load_balancer[1].counter # 0
    /\ \A r \in ret : r.call = "spawn" => r.ref.kind # "Remote"


\* C23: every key of invincible_actors maps to a non-empty set of
\* protectors: an identifier whose last protector was dropped is no key.
C23_ProtectorTable ==
    \A n \in Nodes : \A id \in DOMAIN invincible[n] : invincible[n][id] # {}


\* ---------------------------------------------- specification: SpecProt
\* Two nodes. Node 2 spawns an actor under a specified id; node 1 looks the
\* id up with protection, removes the actor through a Remote reference, sends
\* it messages after the remove, and drops the protector; the workers
\* of both nodes and the actor loops serve the frames.
InitProt == InitCluster(2)

ProtIds == {ActorId(Specified(q), 2) : q \in SpecIds}

\* Environment::find_actor_ref(.., protect = true) called by the searcher
\* once its previous call has returned.
FindProtect(n, q) ==
    /\ \A l \in DOMAIN lookups : lookups[l].pc = "returned"
    /\ Find(n, q, Searcher, TRUE)

Removed(n, id) == Returned("remove", n, RemoteRef(id), "Ok") \in ret

\* Environment::remove on a Remote reference, once for the identifier.
RemoveOnce(n, id) ==
    /\ ~Removed(n, id)
    /\ RemoveRemote(n, id)

\* ActorRef::send_message on the Remote reference after remove has returned.
SendAfterRemove(p, n, id) ==
    /\ Removed(n, id)
    /\ SendRemote(p, n, id)

Dropped(n) == \E r \in ret : r.call = "drop_protector" /\ r.node = n

\* Environment::drop_protector called once on node n; ret keeps the call
\* that has returned.
DropOnce(n, protector, target) ==
    /\ Started(n)
    /\ ~Dropped(n)
    /\ \A p \in Nodes : Len(link[n][p]) < MaxInFlight
    /\ RemoveProtectorEffect(n, protector, target)
    /\ ret' = ret \cup {Returned("drop_protector", n, RemoteRef(target), "Ok")}
    /\ UNCHANGED <<net_senders, load_balancer, channels, actors, outq,
                   queries, lookups, term, inbound, expiring, uuid, sent, hExpStop, hBcast,
                   stream, received, written, threads>>

InboundProt(n, p) ==
    \/ InboundFind(n, p)
    \/ InboundMessage(n, p)
    \/ InboundRemoveProtector(n, p)

NextProt ==
    \/ \E q \in QueriedIds : SpawnHolder(2, q)
    \/ \E q \in QueriedIds : FindProtect(1, q)
    \/ \E l \in DOMAIN lookups : LookupRecv(l)
    \/ \E l \in DOMAIN lookups : LookupReturn(l)
    \/ \E id \in ProtIds : RemoveOnce(1, id)
    \/ \E q \in QueriedIds : SendAfterRemove(2, 1, ActorId(Specified(q), 2))
    \/ \E q \in QueriedIds : DropOnce(1, Searcher, ActorId(Specified(q), 2))
    \/ Outbound(1)
    \/ \E n \in Nodes, p \in Nodes : InboundProt(n, p)
    \/ \E a \in DOMAIN actors : ActorStep(a)

SpecProt == InitProt /\ [][NextProt]_vars

\* The identifier of actor instance a has a non-empty protector set.
HasProtector(a) ==
    /\ actors[a].id \in DOMAIN invincible[NodeOf(a)]
    /\ invincible[NodeOf(a)][actors[a].id] # {}

\* The loop of a takes a Stop from its mailbox.
TakesStop(a) ==
    /\ LoopRecv(a)
    /\ Head(actors[a].mbox) = Special(TokStop)

\* The messages of the envelopes of mailbox mb, Stops left out.
RECURSIVE Waiting(_)
Waiting(mb) ==
    IF mb = <<>> THEN <<>>
    ELSE IF Head(mb).kind = "Regular" THEN <<Head(mb).msg>> \o Waiting(Tail(mb))
    ELSE IF Head(mb).kind = "Serialized"
    THEN <<DeserializeToAny(Head(mb).bin)>> \o Waiting(Tail(mb))
    ELSE Waiting(Tail(mb))

\* C24: when the loop of an actor whose identifier has a non-empty
\* protector set takes a Stop from its mailbox, on_stop is not called, the
\* identifier stays in local_actor_channels and the loop waits for the next
\* envelope with everything behind the Stop still in its mailbox; what such
\* an actor has handled, followed by what waits in its mailbox, is in the
\* order of sending.
C24_ProtectedIgnoresStop ==
    /\ [][\A a \in DOMAIN actors :
             (TakesStop(a) /\ HasProtector(a)) =>
                 /\ actors'[a] = [actors[a] EXCEPT !.mbox = Tail(@)]
                 /\ actors'[a].pc = "idle"
                 /\ channels' = channels
                 /\ actors[a].id \in DOMAIN channels[NodeOf(a)]]_vars
    /\ [][\A a \in DOMAIN actors :
             (HasProtector(a) /\ ~Stopping(a)) =>
                 /\ ~Stopping(a)'
                 /\ (actors[a].log \o Waiting(actors[a].mbox)) \in
                        {SubSeq(actors'[a].log \o Waiting(actors'[a].mbox), 1, k) :
                             k \in 0..Len(actors'[a].log \o Waiting(actors'[a].mbox))}]_vars
    /\ [][\A a \in DOMAIN actors :
             LET all == actors'[a].log \o Waiting(actors'[a].mbox)
             IN  \A i \in DOMAIN all, j \in DOMAIN all :
                     i < j => NumberOf(all[i]) < NumberOf(all[j])]_vars

\* The protected actor of node 2 was removed through a Remote reference and
\* sent two messages afterwards: the Stop in front of them was taken, both
\* messages were handled in order, the loop waits and the identifier is
\* registered.
C24_Witness ==
    \E a \in DOMAIN actors :
        /\ HasProtector(a)
        /\ Removed(1, actors[a].id)
        /\ actors[a].pc = "idle"
        /\ actors[a].mbox = <<>>
        /\ Len(actors[a].log) = 2
        /\ NumberOf(actors[a].log[1]) = 1
        /\ NumberOf(actors[a].log[2]) = 2
        /\ actors[a].id \in DOMAIN channels[2]
        /\ channels[2][actors[a].id] = a

\* C25: no key of local_actor_channels leads to the mailbox of an actor
\* whose loop has exited.
C25_RegisteredIsLive ==
    \A n \in Nodes : \A id \in DOMAIN channels[n] :
        actors[channels[n][id]].pc # "done"

\* C26: a worker that serves a RemoveProtector frame takes the protector
\* out of the set of the target on its node and writes no frame: the links
\* change by the consumed frame only, whether or not the target is a key of
\* the node's protector table.
C26_NoRebroadcast ==
    [][\A n \in Nodes, p \in Nodes :
          InboundRemoveProtector(n, p) =>
              /\ link' = Consumed(n, p)
              /\ invincible' = [invincible EXCEPT ![n] =
                     RemoveProtectorTable(@, Head(link[p][n]).protector,
                                          Head(link[p][n]).target)]]_vars

\* ------------------------------------------ specification: SpecProtFair
\* SpecProt with workers, lookup threads and actor loops that take every
\* step they can take.
SpecProtFair ==
    /\ InitProt
    /\ [][NextProt]_vars
    /\ WF_vars(Outbound(1))
    /\ \A n \in Nodes, p \in Nodes : WF_vars(InboundProt(n, p))
    /\ \A l \in 1..MaxLookups : WF_vars(LookupRecv(l))
    /\ \A l \in 1..MaxLookups : WF_vars(LookupReturn(l))
    /\ \A a \in 1..MaxActors : WF_vars(a \in DOMAIN actors /\ ActorStep(a))

\* The RemoveProtector frames on the links.
RemoveProtectorFrames ==
    {<<n, p, i>> \in Nodes \X Nodes \X (1..(MaxInFlight + 1)) :
        i <= Len(link[n][p]) /\ link[n][p][i].type = "RemoveProtector"}

\* C27: after the one call of drop_protector the cluster reaches a state
\* with no RemoveProtector frame on any link.
C27_DropQuiesces == Dropped(1) ~> (RemoveProtectorFrames = {})

\* spawn on node n has returned a Remote reference to id.
SpawnedRemote(n, id) == Returned("spawn", n, RemoteRef(id), "Ok") \in ret

\* C28: a Message frame for an identifier that spawn on node 1 has returned
\* a Remote reference to travels behind the SpawnByTypeId frame of that
\* identifier (the frame is in front of it on the link, or was served by
\* the worker of the link); the worker that serves the Message frame finds
\* the identifier registered and appends the payload to the mailbox
\* registered for it; and the worker of a link that carries such a Message
\* behind its SpawnByTypeId frame with a registered tag is running, so
\* that the two frames are served.
C28_NoLossAfterSpawn ==
    /\ [][\A p \in Nodes : \A i \in DOMAIN link'[1][p] :
             (/\ link'[1][p][i].type = "Message"
              /\ Returned("spawn", 1, RemoteRef(link'[1][p][i].id), "Ok") \in ret') =>
                 \/ link'[1][p][i].id \in DOMAIN channels'[p]
                 \/ \E j \in 1..(i - 1) :
                        /\ link'[1][p][j].type = "SpawnByTypeId"
                        /\ ActorId(link'[1][p][j].lid, p) = link'[1][p][i].id
                 \/ inbound'[p][1].st = "dead"]_vars
    /\ [][\A p \in Nodes : \A id \in {ActorId(lid, p) : lid \in LocalIds} :
             (/\ InboundMessage(p, 1)
              /\ Head(link[1][p]).type = "Message"
              /\ Head(link[1][p]).id = id
              /\ SpawnedRemote(1, id)) =>
                 /\ id \in DOMAIN channels[p]
                 /\ actors' = [actors EXCEPT ![channels[p][id]].mbox =
                                   Append(@, Serialized(Head(link[1][p]).bin))]]_vars
    /\ [](\A p \in Nodes : \A i \in DOMAIN link[1][p], j \in DOMAIN link[1][p] :
             (/\ j < i
              /\ link[1][p][j].type = "SpawnByTypeId"
              /\ link[1][p][j].tag \in KnownTags
              /\ link[1][p][i].type = "Message"
              /\ link[1][p][i].id = ActorId(link[1][p][j].lid, p)
              /\ SpawnedRemote(1, link[1][p][i].id)) =>
                 inbound[p][1].st = "run")

\* C29: a worker that serves a SpawnByTypeId frame with a tag unknown to the
\* actor factory registers no actor and keeps running, so that the frames
\* behind it on the link are still served.
C29_FailedSpawnSilent ==
    [][\A n \in Nodes, p \in Nodes :
          (InboundSpawn(n, p) /\ ~ActorBuilderOk(Head(link[p][n]).tag)) =>
              /\ actors' = actors
              /\ channels' = channels
              /\ inbound'[n][p].st = "run"]_vars

\* -------------------------------------------- specification: SpecRemote
\* Two nodes. Node 2 spawns an actor under a specified id; node 1 looks the
\* id up with protection, removes identifiers of node 2 through Remote
\* references and sends messages after the remove; workers, lookup threads
\* and actor loops take every step they can take.
InboundRemote(n, p) ==
    \/ InboundFind(n, p)
    \/ InboundMessage(n, p)

NextRemote ==
    \/ \E q \in QueriedIds : SpawnHolder(2, q)
    \/ \E q \in QueriedIds : FindProtect(1, q)
    \/ \E l \in DOMAIN lookups : LookupRecv(l)
    \/ \E l \in DOMAIN lookups : LookupReturn(l)
    \/ \E id \in ProtIds : RemoveOnce(1, id)
    \/ \E q \in QueriedIds : SendAfterRemove(2, 1, ActorId(Specified(q), 2))
    \/ Outbound(1)
    \/ \E n \in Nodes, p \in Nodes : InboundRemote(n, p)
    \/ \E a \in DOMAIN actors : ActorStep(a)

\* The instances the holders of the queried ids can have.
HolderInstances == 1..Cardinality(QueriedIds)

SpecRemote ==
    /\ InitProt
    /\ [][NextRemote]_vars
    /\ WF_vars(Outbound(1))
    /\ \A n \in Nodes, p \in Nodes : WF_vars(InboundRemote(n, p))
    /\ \A l \in 1..MaxLookups : WF_vars(LookupRecv(l))
    /\ \A l \in 1..MaxLookups : WF_vars(LookupReturn(l))
    /\ \A a \in HolderInstances : WF_vars(a \in DOMAIN actors /\ ActorStep(a))

\* The worker of node n serves a SpecialToken frame of peer p that carries
\* a Stop.
ServesStop(n, p) ==
    /\ InboundMessage(n, p)
    /\ Head(link[p][n]).type = "SpecialToken"
    /\ DeserializeToken(Head(link[p][n]).bin) = TokStop

\* C30: the worker that serves the Stop of a remote remove appends
\* Special(Stop) to the mailbox registered under the target, as remove on a
\* Local reference does, and changes nothing when the target is not
\* registered; the loop that takes a Stop ignores it when the identifier has
\* a non-empty protector set and calls on_stop when the identifier has no
\* entry in the protector table; a target that has a protector and is
\* removed through the Remote reference is not on the stop path at the
\* remove and does not enter it while it has a protector; with fair workers
\* and loops it handles the messages sent to it after the remove.
C30_RemoteRemove ==
    /\ [][\A n \in Nodes, p \in Nodes :
             ServesStop(n, p) =>
                 /\ actors' = IF Head(link[p][n]).id \in DOMAIN channels[n]
                              THEN MboxSend(actors, channels[n][Head(link[p][n]).id],
                                            Special(TokStop))
                              ELSE actors
                 /\ channels' = channels
                 /\ invincible' = invincible]_vars
    /\ [][\A a \in DOMAIN actors :
             TakesStop(a) =>
                 /\ HasProtector(a) => actors'[a].pc = "idle"
                 /\ ~Protected(NodeOf(a), actors[a].id) => actors'[a].pc = "on_stop"]_vars
    /\ [][\A a \in DOMAIN actors :
             (/\ HasProtector(a)
              /\ actors[a].id \in DOMAIN channels[NodeOf(a)]
              /\ channels[NodeOf(a)][actors[a].id] = a
              /\ \/ RemoveOnce(1, actors[a].id)
                 \/ Removed(1, actors[a].id) /\ ~Stopping(a)) =>
                 ~Stopping(a) /\ ~Stopping(a)']_vars
    /\ \A a \in HolderInstances, k \in 1..MaxMsgs :
           (IF a \in DOMAIN actors
            THEN /\ HasProtector(a)
                 /\ ~Stopping(a)
                 /\ Removed(1, actors[a].id)
                 /\ Len(actors[a].log) + Len(Waiting(actors[a].mbox)) >= k
            ELSE FALSE)
               ~> (IF a \in DOMAIN actors THEN Len(actors[a].log) >= k ELSE FALSE)

\* The actor of node 2 was found from node 1 with protection and removed
\* through the Remote reference; its Stop was served and taken, the
\* message sent afterwards was handled and the loop waits for more. The
\* remove of the identifier nobody has registered was served too.
C30_Witness ==
    /\ \E l \in DOMAIN lookups :
          /\ lookups[l].pc = "returned"
          /\ lookups[l].result = RemoteRef(ActorId(Specified(1), 2))
    /\ Removed(1, ActorId(Specified(1), 2))
    /\ Removed(1, ActorId(Specified(2), 2))
    /\ outq[1] = <<>>
    /\ link[1][2] = <<>>
    /\ ActorId(Specified(1), 2) \in DOMAIN channels[2]
    /\ LET a == channels[2][ActorId(Specified(1), 2)]
       IN  /\ HasProtector(a)
           /\ actors[a].pc = "idle"
           /\ actors[a].mbox = <<>>
           /\ Len(actors[a].log) = 1

\* -------------------------------------------- specification: SpecLookup
\* A cluster of one, two or three nodes. Nodes 1 and 2 spawn actors under a
\* specified id before the lookups; node 1 looks ids up, with and without
\* protection and from several threads at once; the write of a query to a
\* peer can fail.

\* LocalEnvironment::find_actor_ref on a local miss when net_sender.write
\* fails at the k-th entry of net_senders: the entries before it have the
\* query, the reply sender is taken out of remote_queries again and the
\* call returns NetworkError.
FindWriteFails(n, q, s, protect, k) ==
    /\ Started(n)
    /\ Len(lookups) < MaxLookups
    /\ \A p \in Nodes : Len(link[n][p]) < MaxInFlight
    /\ ActorId(Specified(q), n) \notin DOMAIN channels[n]
    /\ k \in 1..Len(net_senders[n])
    /\ queries' = [queries EXCEPT ![n] = MapRemove(@, <<q, s>>)]
    /\ link' = [link EXCEPT ![n] = [p \in Nodes |->
                   IF \E j \in 1..(k - 1) : net_senders[n][j] = p
                   THEN Append(link[n][p], [type |-> "QuerySpecifiedId", q |-> q,
                                            ip |-> n, searcher |-> s, protect |-> protect])
                   ELSE link[n][p]]]
    /\ lookups' = Append(lookups,
           [NewLookup(n, q, s, protect, 0, <<>>) EXCEPT
                !.pc = "returned", !.result = [NoRef EXCEPT !.kind = "NetworkError"]])
    /\ UNCHANGED <<net_senders, load_balancer, channels, invincible, actors, outq,
                   term, inbound, expiring, uuid, sent, hExpStop, hBcast,
                   ret, stream, received, written, threads>>

NextLookup ==
    \/ \E n \in {1, 2}, q \in QueriedIds : SpawnHolder(n, q)
    \/ \E q \in QueriedIds, protect \in BOOLEAN : Find(1, q, Searcher, protect)
    \/ \E q \in QueriedIds, protect \in BOOLEAN, k \in Nodes :
           FindWriteFails(1, q, Searcher, protect, k)
    \/ \E l \in DOMAIN lookups : LookupRecv(l)
    \/ \E l \in DOMAIN lookups : LookupReturn(l)
    \/ \E n \in Nodes, p \in Nodes : InboundFind(n, p)

SpecLookup == InitFindFair /\ [][NextLookup]_vars

\* C31: every step in which a call of find_actor_ref returns (with a
\* reference, with none or with NetworkError after a failed query write)
\* leaves remote_queries without an entry under its (queried id, searcher);
\* the step of a lookup that is answered from local_actor_channels leaves
\* remote_queries as it was.
C31_LookupEntryRemoved ==
    /\ [][\A l \in DOMAIN lookups' :
             (/\ lookups'[l].pc = "returned"
              /\ l \in DOMAIN lookups => lookups[l].pc # "returned") =>
                 <<lookups'[l].q, lookups'[l].searcher>>
                     \notin DOMAIN queries'[lookups'[l].node]]_vars
    /\ [][\A l \in DOMAIN lookups' \ DOMAIN lookups :
             (lookups'[l].chan # <<>> /\ lookups'[l].chan[1].kind = "Local") =>
                 queries' = queries]_vars

\* Every call has returned, one with none after the replies of all peers
\* and one with NetworkError, and remote_queries of node 1 is empty.
C31_Witness ==
    /\ \E l \in DOMAIN lookups :
          lookups[l].pc = "returned" /\ lookups[l].result.kind = "NetworkError"
    /\ \E l \in DOMAIN lookups :
          /\ lookups[l].pc = "returned"
          /\ lookups[l].result.kind = "None"
          /\ lookups[l].got = lookups[l].num
          /\ lookups[l].num > 0
    /\ \A l \in DOMAIN lookups : lookups[l].pc = "returned"
    /\ queries[1] = EmptyMap

\* C32: a step changes the protector table only when it is a protected hit:
\* the local search of a find_actor_ref with protect = true on a node that
\* holds the queried id, or the worker of a node that holds the queried id
\* serving a query with protect = true; the step then adds the searcher to
\* the set of that id in the table of that node and changes nothing else of
\* the tables.
C32_ProtectOnHitOnly ==
    [][invincible' # invincible =>
          \E n \in Nodes, q \in SpecIds :
              /\ ActorId(Specified(q), n) \in DOMAIN channels[n]
              /\ invincible' = [invincible EXCEPT ![n] =
                     AddProtector(@, Searcher, ActorId(Specified(q), n))]
              /\ \/ \E l \in DOMAIN lookups' \ DOMAIN lookups :
                        /\ lookups'[l].node = n
                        /\ lookups'[l].q = q
                        /\ lookups'[l].protect
                        /\ lookups'[l].chan # <<>>
                 \/ \E p \in Nodes :
                        /\ InboundQuery(n, p)
                        /\ Head(link[p][n]).q = q
                        /\ Head(link[p][n]).protect]_vars

\* A lookup with protection has returned a reference to the actor of
\* node 2, where the searcher protects it; a lookup without protection has
\* returned too, and the tables of the nodes that do not hold the id are
\* empty.
C32_Witness ==
    /\ \E l \in DOMAIN lookups :
          /\ lookups[l].pc = "returned"
          /\ lookups[l].protect
          /\ lookups[l].result = RemoteRef(ActorId(Specified(1), 2))
    /\ \E l \in DOMAIN lookups : lookups[l].pc = "returned" /\ ~lookups[l].protect
    /\ ActorId(Specified(1), 2) \in DOMAIN invincible[2]
    /\ invincible[2][ActorId(Specified(1), 2)] = {Searcher}
    /\ invincible[1] = EmptyMap
    /\ Len(net_senders[1]) = 2
    /\ invincible[3] = EmptyMap
    /\ link[1][3] = <<>>

\* C33: a mailbox changes by an envelope appended at its end or by its
\* first envelope taken out, and only the waiting loop of an actor whose
\* on_start has returned and that has not taken a Stop it obeys takes one
\* out; the taken envelope, if it carries a message, is the one message
\* added to what the actor has handled, and nothing else is ever added; an
\* actor on the stop path takes nothing out and handles nothing; no
\* message is handled twice.
C33_MailboxDelivery ==
    /\ [][\A a \in DOMAIN actors :
             LET mb == actors[a].mbox
                 mb2 == actors'[a].mbox
                 taken == mb # <<>> /\ mb2 = Tail(mb)
             IN  /\ mb2 # mb =>
                        \/ Len(mb2) = Len(mb) + 1 /\ SubSeq(mb2, 1, Len(mb)) = mb
                        \/ taken
                 /\ taken =>
                        /\ actors[a].pc = "idle"
                        /\ OnStartCompleted(a)
                        /\ ~Stopping(a)
                        /\ actors'[a].log = IF Head(mb).kind = "Regular"
                                            THEN Append(actors[a].log, Head(mb).msg)
                                            ELSE actors[a].log
                 /\ actors'[a].log # actors[a].log => taken
                 /\ Stopping(a) => ~taken /\ Stopping(a)']_vars
    /\ [](\A a \in DOMAIN actors :
             \A i \in DOMAIN actors[a].log, j \in DOMAIN actors[a].log :
                 i # j => actors[a].log[i] # actors[a].log[j])

\* An actor has handled the first message sent to it, was removed, and
\* has exited with the second message, sent behind the Stop, still in its
\* mailbox.
C33_Witness ==
    \E a \in DOMAIN actors :
        /\ actors[a].pc = "done"
        /\ Len(actors[a].log) = 1
        /\ NumberOf(actors[a].log[1]) = 1
        /\ \E i \in DOMAIN actors[a].mbox : actors[a].mbox[i].kind = "Regular"

\* ---------------------------------------------- specification: SpecFill
\* One connection: payloads of 1 to 6 bytes are written, and one read with
\* a buffer that has room for all the bytes that wait takes them; the
\* buffer handed to read is a short one (8 bytes) or the one of
\* wait_for_remote_messages.
NextFill ==
    \/ \E L \in 1..6 : NetSenderWrite(Payload(L))
    \/ \E cap \in {8, BUFFERSIZE} : ReadInto(cap, Len(stream))

SpecFill == InitFrame /\ [][NextFill]_vars

\* C34: one read of a buffer that holds two or more complete frames of
\* payloads of 1 to 65535 bytes returns their payloads: when such a read
\* has taken the bytes that waited, the payloads returned so far are the
\* payloads written so far, in write order.
C34_MultiFrameRead ==
    [][(/\ stream' = <<>>
        /\ Len(written) >= Len(received) + 2
        /\ \A i \in DOMAIN written : Len(written[i]) \in 1..65535) =>
           received' = written]_vars

\* ---------------------------------------------- specification: SpecSplit
\* One connection whose byte stream reaches the reader in pieces:
\* stream.read returns any number, at least one, of the bytes that wait.
NextSplit ==
    \/ \E L \in 1..2 : NetSenderWrite(Payload(L))
    \/ \E size \in 1..Len(stream) : ReadInto(BUFFERSIZE, size)

SpecSplit == InitFrame /\ [][NextSplit]_vars

\* C35: however the bytes of the stream are split across successive reads,
\* the payloads the reads have returned so far are the first payloads
\* written, each once, unchanged and in write order, and when no byte
\* waits every payload written has been returned.
C35_SplitReads ==
    /\ Len(received) <= Len(written)
    /\ \A i \in DOMAIN received : received[i] = written[i]
    /\ stream = <<>> => received = written

\* ---------------------------------------------- specification: SpecPeers
\* Node 1 is constructed with a list of peer endpoints: no peer, one peer,
\* the own address among the peers, two peers, and lists in which two
\* endpoints (two ports) share the IP of node 2. It places actors through
\* spawn and spawn_with_id; the inbound workers of the peers spawn what
\* they are asked to.
InitPeers ==
    \E remotes \in {<<>>, <<2>>, <<1, 2>>, <<2, 3>>, <<2, 2>>, <<2, 3, 2>>} :
        /\ net_senders = [n \in Nodes |->
               IF n = 1 THEN NewNetSenders(1, remotes)
               ELSE IF n \in SeqToSet(remotes) THEN NewNetSenders(n, <<1>>) ELSE <<>>]
        /\ load_balancer = [n \in Nodes |->
               NewLoadBalancer(IF n = 1 THEN NewNumMachines(1, remotes)
                               ELSE IF n \in SeqToSet(remotes)
                                    THEN NewNumMachines(n, <<1>>) ELSE 1)]
        /\ channels = [n \in Nodes |-> EmptyMap]
        /\ invincible = [n \in Nodes |-> EmptyMap]
        /\ actors = <<>>
        /\ outq = [n \in Nodes |-> <<>>]
        /\ link = [n \in Nodes |-> [p \in Nodes |-> <<>>]]
        /\ queries = [n \in Nodes |-> EmptyMap]
        /\ lookups = <<>>
        /\ term = [n \in Nodes |-> 0]
        /\ inbound = [n \in Nodes |-> [p \in Nodes |-> Worker("run")]]
        /\ expiring = [n \in Nodes |-> 0]
        /\ uuid = 0
        /\ sent = [p \in {1, 2} |-> 0]
        /\ hExpStop = {}
        /\ hBcast = <<>>
        /\ ret = {}
        /\ stream = <<>>
        /\ received = <<>>
        /\ written = <<>>
        /\ threads = [t \in 1..MaxThreads |-> [op |-> "idle", pc |-> 0]]

NextPeers ==
    \/ SpawnAny(1)
    \/ \E q \in QueriedIds : SpawnWithId(1, q)
    \/ \E n \in Nodes, p \in Nodes : InboundSpawn(n, p)

SpecPeers == InitPeers /\ [][NextPeers]_vars

\* C36: for every list of peers node 1 is constructed with, the number
\* next_machine_no returns to a spawn is 0 or a k with k - 1 an index of
\* net_senders, no spawn returns InvalidState, and without peers every
\* spawn returns a Local reference.
C36_ValidSlots ==
    /\ [][load_balancer' # load_balancer =>
            LET no == NextMachineNo(load_balancer[1]).res
            IN  no = 0 \/ no - 1 < Len(net_senders[1])]_vars
    /\ [](\A r \in ret : r.call = "spawn" =>
            /\ r.res # "InvalidState"
            /\ net_senders[1] = <<>> => r.ref.kind = "Local")

\* ----------------------------------------------- specification: SpecLock
\* The locks of one LocalEnvironment and the threads that take them. A call
\* is the sequence of its lock, unlock and transport write steps, in the
\* order of the code; a guard bound in a match or if let is released at the
\* end of that statement unless drop is called earlier. The read and write
\* sides of the RwLock invincible_actors are both steps on
\* "invincible_actors"; a program that writes to every net_sender writes
\* twice.
\*
\* The calls of API threads, of the inbound workers and of the outbound
\* worker:
\*   spawn_local      spawn placed here by the load balancer
\*   register         spawn with SpawnHere (also SpawnByTypeId served by a
\*                    worker), find_actor_ref answered locally without
\*                    protection, to_actor_ref of a local id, and
\*                    handle_net_message (Message, SpecialToken)
\*   spawn_remote     spawn placed on a peer; to_actor_ref is called under
\*                    the net_senders guard
\*   find_protect     find_actor_ref answered locally with protection
\*   find_remote      find_actor_ref asking the peers, then
\*                    remove_remote_query
\*   find_write_err   find_actor_ref whose first query write fails
\*   remove_protector (drop_protector, RemoveProtector frame) with the
\*                    target in the table
\*   remove_protector_remote  the same without the target in the table
\*   broadcast        Environment::broadcast
\*   set_expired      send_expiration_signal (also SendExpirationSignal
\*                    served by a worker)
\*   net_write        remove of a Remote id, and the outbound worker
\*   to_remote_ref    to_actor_ref of a remote id
\*   inbound_broadcast  Broadcast served by a worker with one actor
\*   inbound_query    QuerySpecifiedId served without add_protector
\*   inbound_query_protect  QuerySpecifiedId with a hit and protection
\*   inbound_result   QuerySpecifiedIdResult(Some)
\*   inbound_none     QuerySpecifiedIdResult(None)
EnvPrograms ==
    LET Lock(l) == [do |-> "lock", on |-> l]
        Unlock(l) == [do |-> "unlock", on |-> l]
        Write == [do |-> "write", on |-> "net_sender"]
        CH == "local_actor_channels"
        NS == "net_senders"
        RQ == "remote_queries"
        INV == "invincible_actors"
        EXT == "external_actor_ref_sender"
        LB == "load_balancer"
        TERM == "termination_sender"
    IN  [spawn_local |-> <<Lock(LB), Unlock(LB), Lock(CH), Unlock(CH)>>,
         register |-> <<Lock(CH), Unlock(CH)>>,
         spawn_remote |-> <<Lock(LB), Unlock(LB), Lock(NS), Write, Lock(EXT), Unlock(EXT),
                            Unlock(NS)>>,
         find_protect |-> <<Lock(CH), Lock(INV), Unlock(INV), Unlock(CH)>>,
         find_remote |-> <<Lock(CH), Unlock(CH), Lock(RQ), Unlock(RQ), Lock(NS), Write, Write,
                           Unlock(NS), Lock(RQ), Unlock(RQ)>>,
         find_write_err |-> <<Lock(CH), Unlock(CH), Lock(RQ), Unlock(RQ), Lock(NS), Write,
                              Lock(RQ), Unlock(RQ), Unlock(NS)>>,
         remove_protector |-> <<Lock(INV), Unlock(INV)>>,
         remove_protector_remote |-> <<Lock(INV), Unlock(INV), Lock(NS), Write, Write,
                                       Unlock(NS)>>,
         broadcast |-> <<Lock(CH), Unlock(CH), Lock(NS), Write, Write, Unlock(NS)>>,
         set_expired |-> <<Lock(NS), Write, Write, Unlock(NS), Lock(CH), Unlock(CH),
                           Lock(TERM), Unlock(TERM)>>,
         net_write |-> <<Lock(NS), Write, Unlock(NS)>>,
         to_remote_ref |-> <<Lock(EXT), Unlock(EXT)>>,
         inbound_broadcast |-> <<Lock(CH), Unlock(CH), Lock(CH), Unlock(CH)>>,
         inbound_query |-> <<Lock(CH), Unlock(CH), Lock(NS), Write, Unlock(NS)>>,
         inbound_query_protect |-> <<Lock(CH), Lock(INV), Unlock(INV), Unlock(CH), Lock(NS),
                                     Write, Unlock(NS)>>,
         inbound_result |-> <<Lock(RQ), Lock(EXT), Unlock(EXT), Unlock(RQ)>>,
         inbound_none |-> <<Lock(RQ), Unlock(RQ)>>]

\* An actor loop whose remove keeps the read guard of invincible_actors
\* while it locks local_actor_channels.
LoopPrograms_NestedRemove ==
    [loop_stop_protected |-> <<[do |-> "lock", on |-> "invincible_actors"],
                               [do |-> "unlock", on |-> "invincible_actors"]>>,
     loop_stop |-> <<[do |-> "lock", on |-> "invincible_actors"],
                     [do |-> "unlock", on |-> "invincible_actors"],
                     [do |-> "lock", on |-> "invincible_actors"],
                     [do |-> "lock", on |-> "local_actor_channels"],
                     [do |-> "unlock", on |-> "local_actor_channels"],
                     [do |-> "unlock", on |-> "invincible_actors"]>>]

\* actor_mailbox_loop on Token::Stop: the contains_key test under the read
\* guard, which is all when the actor is protected; otherwise on_stop and
\* remove, which tests again and then locks local_actor_channels.
LoopPrograms ==
    [loop_stop_protected |-> <<[do |-> "lock", on |-> "invincible_actors"],
                               [do |-> "unlock", on |-> "invincible_actors"]>>,
     loop_stop |-> <<[do |-> "lock", on |-> "invincible_actors"],
                     [do |-> "unlock", on |-> "invincible_actors"],
                     [do |-> "lock", on |-> "invincible_actors"],
                     [do |-> "unlock", on |-> "invincible_actors"],
                     [do |-> "lock", on |-> "local_actor_channels"],
                     [do |-> "unlock", on |-> "local_actor_channels"]>>]

\* The thread th (its call and the steps done) holds the guard of lock l:
\* among the steps done, the last one on l is a lock.
Holds(th, l) ==
    /\ th.op # "idle"
    /\ LET prog == (EnvPrograms @@ LoopPrograms)[th.op]
       IN  \E i \in 1..th.pc :
               /\ prog[i] = [do |-> "lock", on |-> l]
               /\ \A j \in (i + 1)..th.pc : prog[j].on # l

\* A thread enters a call.
StartCall(t, op) ==
    /\ threads[t].op = "idle"
    /\ threads' = [threads EXCEPT ![t] = [op |-> op, pc |-> 0]]
    /\ UNCHANGED <<net_senders, load_balancer, channels, invincible, actors, outq, link,
                   queries, lookups, term, inbound, expiring, uuid, sent, hExpStop, hBcast,
                   ret, stream, received, written>>

\* The next step of the call thread t is in: Mutex::lock (RwLock::read,
\* RwLock::write) returns when no thread holds the guard; unlock and write
\* are always possible. After the last step the call has returned.
LockStep(t) ==
    /\ threads[t].op # "idle"
    /\ LET prog == (EnvPrograms @@ LoopPrograms)[threads[t].op]
           step == prog[threads[t].pc + 1]
       IN  /\ step.do = "lock" => \A u \in DOMAIN threads : ~Holds(threads[u], step.on)
           /\ threads' = [threads EXCEPT ![t] =
                  IF threads[t].pc + 1 = Len(prog) THEN [op |-> "idle", pc |-> 0]
                  ELSE [@ EXCEPT !.pc = @ + 1]]
    /\ UNCHANGED <<net_senders, load_balancer, channels, invincible, actors, outq, link,
                   queries, lookups, term, inbound, expiring, uuid, sent, hExpStop, hBcast,
                   ret, stream, received, written>>

InitLock == InitCluster(1)

NextLock ==
    \/ \E t \in DOMAIN threads, op \in DOMAIN (EnvPrograms @@ LoopPrograms) : StartCall(t, op)
    \/ \E t \in DOMAIN threads : LockStep(t)

SpecLock == InitLock /\ [][NextLock]_vars

\* C37: a thread whose next step is a transport write does not hold the
\* guard of local_actor_channels and holds at most one lock of the
\* environment; and there is no set of threads each of which waits for a
\* lock that a thread of the set holds.
C37_LockDiscipline ==
    LET Locks == {"local_actor_channels", "net_senders", "remote_queries",
                  "invincible_actors", "external_actor_ref_sender", "load_balancer",
                  "termination_sender"}
        NextOf(t) == (EnvPrograms @@ LoopPrograms)[threads[t].op][threads[t].pc + 1]
        Writing(t) == threads[t].op # "idle" /\ NextOf(t).do = "write"
        WaitsFor(t, u) == /\ threads[t].op # "idle"
                          /\ NextOf(t).do = "lock"
                          /\ Holds(threads[u], NextOf(t).on)
    IN  /\ \A t \in DOMAIN threads : Writing(t) =>
               /\ ~Holds(threads[t], "local_actor_channels")
               /\ Cardinality({l \in Locks : Holds(threads[t], l)}) <= 1
        /\ \A S \in SUBSET (DOMAIN threads) :
               S # {} => \E t \in S : \A u \in S : ~WaitsFor(t, u)

\* Two threads at once: one has failed to write a lookup query and holds
\* the guards of net_senders and remote_queries, the other waits for
\* remote_queries.
C37_Witness ==
    \E t, u \in DOMAIN threads :
        /\ t # u
        /\ Holds(threads[u], "net_senders")
        /\ Holds(threads[u], "remote_queries")
        /\ threads[t].op # "idle"
        /\ (EnvPrograms @@ LoopPrograms)[threads[t].op][threads[t].pc + 1] =
               [do |-> "lock", on |-> "remote_queries"]

\* C38: every step in which a worker consumes a Message or SpecialToken
\* frame whose identifier is not a key of local_actor_channels of its node
\* leaves local_actor_channels, invincible_actors, remote_queries, the
\* lookups and every actor with its mailbox unchanged on every node, writes
\* nothing, and leaves the worker running with the frame behind it next.
C38_UnknownIsNoop ==
    [][\A n \in Nodes, p \in Nodes :
        (/\ link[p][n] # <<>>
         /\ Head(link[p][n]).type \in {"Message", "SpecialToken"}
         /\ Head(link[p][n]).id \notin DOMAIN channels[n]
         /\ inbound[n][p].st = "run"
         /\ link'[p][n] = Tail(link[p][n])) =>
            /\ channels' = channels
            /\ invincible' = invincible
            /\ queries' = queries
            /\ lookups' = lookups
            /\ actors' = actors
            /\ outq' = outq
            /\ link' = Consumed(n, p)
            /\ inbound' = inbound]_vars

\* remove through a Remote reference to an identifier that was never
\* registered has returned, and the worker of node 2 has consumed its Stop.
C38_Witness ==
    /\ Removed(1, ActorId(Specified(2), 2))
    /\ outq[1] = <<>>
    /\ link[1][2] = <<>>
    /\ ActorId(Specified(2), 2) \notin DOMAIN channels[2]
    /\ inbound[2][1].st = "run"

====
